---------------------------- MODULE Spec2Model ----------------------------
(***************************************************************************)
(* A model of the mython interpreter: the lexer (lexer.cpp / lexer.h), the *)
(* runtime object model (runtime.cpp) and the tree-walking evaluator       *)
(* (statement.cpp).                                                        *)
(*                                                                         *)
(* The evaluator is a big-step function Execute(node, closure, heap, out): *)
(*   closure  the Closure the node is executed against                     *)
(*   heap     the field tables of the ClassInstance objects; an instance   *)
(*            is the member class_instance_ of a NewInstance node, so the  *)
(*            instances are identified by their NewInstance node           *)
(*   out      the text written to context.GetOutputStream()                *)
(* and it returns an outcome: a value, a thrown ObjectHolder (the return   *)
(* signal), a thrown runtime_error, or an abort (a failed assert).         *)
(***************************************************************************)
EXTENDS Integers, Sequences, FiniteSets, TLC

VARIABLES
    closure,    \* the root Closure the embedder executes statements against
    heap,       \* instance id -> field table (ClassInstance::fields_)
    out,        \* the context's output sink
    last,       \* the last root execution: node, state before, outcome
    steps,      \* number of root executions so far
    input,      \* lexer: the character stream, a sequence of characters
    lx,         \* lexer: the stream and its state bits, tokens_, current_dent_
    phase,      \* lexer: "idle", "start", "loop" (of ParseTokens), "done", "error"
    call        \* lexer: the last call of the cursor interface and its result

vars == <<closure, heap, out, last, steps, input, lx, phase, call>>

evalVars == <<closure, heap, out, last, steps>>
lexVars == <<input, lx, phase, call>>

-----------------------------------------------------------------------------
(* Values: what an ObjectHolder refers to.                                 *)

NoneV == [t |-> "None"]
Num(n) == [t |-> "Number", n |-> n]
Str(s) == [t |-> "String", s |-> s]
BoolV(b) == [t |-> "Bool", b |-> b]
ClassV(c) == [t |-> "Class", c |-> c]
Inst(i) == [t |-> "Instance", id |-> i]

EmptyClosure == [x \in {} |-> NoneV]

\* closure[key] = value of std::unordered_map
Bind(c, key, v) == [x \in DOMAIN c \cup {key} |-> IF x = key THEN v ELSE c[x]]

-----------------------------------------------------------------------------
(* Statement nodes.                                                        *)

VarV(ids) == [k |-> "VariableValue", dotted_ids |-> ids]
Assign(var, rv) == [k |-> "Assignment", variable_name |-> var, r_value |-> rv]
FieldAssign(ids, fname, rv) ==
    [k |-> "FieldAssignment", object |-> VarV(ids), field_name |-> fname,
     r_value |-> rv]
NoneNode == [k |-> "None"]
PrintNode(args) == [k |-> "Print", args |-> args]
MethodCallNode(obj, method, args) ==
    [k |-> "MethodCall", object |-> obj, method |-> method, args |-> args]
NewInst(id, args) == [k |-> "NewInstance", class_instance |-> id, args |-> args]
StringifyNode(arg) == [k |-> "Stringify", argument |-> arg]
BinOp(kind, lhs, rhs) == [k |-> kind, lhs |-> lhs, rhs |-> rhs]
NotNode(arg) == [k |-> "Not", argument |-> arg]
CompoundNode(stmts) == [k |-> "Compound", statements |-> stmts]
MethodBodyNode(body) == [k |-> "MethodBody", body |-> body]
ReturnNode(stmt) == [k |-> "Return", statement |-> stmt]
ClassDefNode(c) == [k |-> "ClassDefinition", class |-> c]
NullNode == [k |-> "null"]
IfElseNode(cond, ifb, elseb) ==
    [k |-> "IfElse", condition |-> cond, if_body |-> ifb, else_body |-> elseb]
ComparisonNode(cmp, lhs, rhs) ==
    [k |-> "Comparison", cmp |-> cmp, lhs |-> lhs, rhs |-> rhs]

Method(name, params, body) ==
    [name |-> name, formal_params |-> params, body |-> body]

-----------------------------------------------------------------------------
(* Outcomes of an execution.  kind is "ok" (a holder is returned),         *)
(* "return" (an ObjectHolder was thrown by Return), "error" (a             *)
(* std::runtime_error was thrown; err is its message) or "abort" (an       *)
(* assert failed).  closure, heap and out are the state the execution left. *)

Ok(v, c, h, o) ==
    [kind |-> "ok", val |-> v, err |-> "", closure |-> c, heap |-> h, out |-> o]
Ret(v, c, h, o) ==
    [kind |-> "return", val |-> v, err |-> "", closure |-> c, heap |-> h, out |-> o]
Err(msg, c, h, o) ==
    [kind |-> "error", val |-> NoneV, err |-> msg, closure |-> c, heap |-> h, out |-> o]
Abort(c, h, o) ==
    [kind |-> "abort", val |-> NoneV, err |-> "assert", closure |-> c, heap |-> h, out |-> o]

\* the same outcome seen from a caller whose closure is c
InClosure(r, c) == [r EXCEPT !.closure = c]

-----------------------------------------------------------------------------
(* The classes and the NewInstance nodes of the programs that are run.     *)
(* Each NewInstance node owns one ClassInstance (its member                *)
(* class_instance_), built when the node is built.                         *)

NoParent == "-"

\* class K: def inner(self, c, v)
InnerBody ==
    MethodBodyNode(CompoundNode(<<
        IfElseNode(VarV(<<"c">>),
            CompoundNode(<<
                IfElseNode(VarV(<<"c">>), ReturnNode(VarV(<<"v">>)), NullNode),
                PrintNode(<<VarV(<<"v">>)>>) >>),
            NullNode),
        FieldAssign(<<"self">>, "after", VarV(<<"v">>)) >>))

\* class K: def outer(self, c, v)
OuterBody ==
    MethodBodyNode(CompoundNode(<<
        FieldAssign(<<"self">>, "r",
            MethodCallNode(VarV(<<"self">>), "inner", <<VarV(<<"c">>), VarV(<<"v">>)>>)),
        PrintNode(<<VarV(<<"self", "r">>)>>),
        ReturnNode(VarV(<<"self", "r">>)) >>))

\* class K: def __init__(self, v)
InitBody == MethodBodyNode(CompoundNode(<<FieldAssign(<<"self">>, "v", VarV(<<"v">>))>>))

\* class K: def __str__(self): a body that prints before it returns
StrPrintingBody ==
    MethodBodyNode(CompoundNode(<<
        PrintNode(<<VarV(<<"self", "v">>)>>),
        ReturnNode(VarV(<<"self", "v">>)) >>))

\* class K: def bad(self): reads an unbound name
BadBody == MethodBodyNode(CompoundNode(<<ReturnNode(VarV(<<"nope">>))>>))

\* class K: def div(self, a, b)
DivBody ==
    MethodBodyNode(CompoundNode(<<
        ReturnNode(BinOp("Div", VarV(<<"a">>), VarV(<<"b">>))) >>))

\* class K: def nometh(self): calls a method the class does not have
NoMethBody ==
    MethodBodyNode(CompoundNode(<<
        ReturnNode(MethodCallNode(VarV(<<"self">>), "zzz", <<>>)) >>))

\* class K: def mk(self, c): the same NewInstance node (instance 3) on every call
MkBody ==
    MethodBodyNode(CompoundNode(<<
        Assign("m", NewInst(3, <<>>)),
        IfElseNode(VarV(<<"c">>),
            FieldAssign(<<"m">>, "f", VarV(<<"self", "v">>)), NullNode),
        ReturnNode(VarV(<<"m", "f">>)) >>))

\* class S: def __str__(self): returns without printing
StrQuietBody == MethodBodyNode(CompoundNode(<<ReturnNode(VarV(<<"self", "v">>))>>))

\* bodies of the classes A, B(A), C(B), Q, Q2(Q), R and W
ReturnsSelf == MethodBodyNode(CompoundNode(<<ReturnNode(VarV(<<"self">>))>>))
Returns(name) == MethodBodyNode(CompoundNode(<<ReturnNode(VarV(<<name>>))>>))
ReturnsNone == MethodBodyNode(CompoundNode(<<ReturnNode(NoneNode)>>))
ReturnsNothing == MethodBodyNode(CompoundNode(<<>>))

\* class W: def loc(self, a): one = a; return one
LocBody ==
    MethodBodyNode(CompoundNode(<<
        Assign("one", VarV(<<"a">>)),
        ReturnNode(VarV(<<"one">>)) >>))

\* class T: def __lt__(self, other): return not other
ReturnsNot(name) ==
    MethodBodyNode(CompoundNode(<<ReturnNode(NotNode(VarV(<<name>>)))>>))

\* class X: def __lt__(self, other): self.x = other; return other
KeepsOther ==
    MethodBodyNode(CompoundNode(<<
        FieldAssign(<<"self">>, "x", VarV(<<"other">>)),
        ReturnNode(VarV(<<"other">>)) >>))

\* class X: def __eq__(self, other): return self.x
ReturnsKept == MethodBodyNode(CompoundNode(<<ReturnNode(VarV(<<"self", "x">>))>>))

\* class W: def echo(self, v): print v; return v
EchoBody ==
    MethodBodyNode(CompoundNode(<<
        PrintNode(<<VarV(<<"v">>)>>),
        ReturnNode(VarV(<<"v">>)) >>))

\* class I: def __init__(self, v): print v; self.v = v; return v
InitPrintingBody ==
    MethodBodyNode(CompoundNode(<<
        PrintNode(<<VarV(<<"v">>)>>),
        FieldAssign(<<"self">>, "v", VarV(<<"v">>)),
        ReturnNode(VarV(<<"v">>)) >>))

ClassTable ==
    [P |-> [name |-> "P", methods |-> <<>>, parent |-> NoParent],
     K |-> [name |-> "K",
            methods |-> << Method("__init__", <<"v">>, InitBody),
                           Method("inner", <<"c", "v">>, InnerBody),
                           Method("outer", <<"c", "v">>, OuterBody),
                           Method("__str__", <<>>, StrPrintingBody),
                           Method("bad", <<>>, BadBody),
                           Method("div", <<"a", "b">>, DivBody),
                           Method("nometh", <<>>, NoMethBody),
                           Method("mk", <<"c">>, MkBody) >>,
            parent |-> NoParent],
     S |-> [name |-> "S",
            methods |-> << Method("__init__", <<"v">>, InitBody),
                           Method("__str__", <<>>, StrQuietBody) >>,
            parent |-> NoParent],
     A |-> [name |-> "A",
            methods |-> << Method("f", <<>>, ReturnsSelf),
                           Method("g", <<"x">>, Returns("x")),
                           Method("h", <<>>, ReturnsNone) >>,
            parent |-> NoParent],
     B |-> [name |-> "B",
            methods |-> << Method("g", <<"x">>, ReturnsSelf),
                           Method("h", <<"x">>, Returns("x")),
                           Method("b", <<>>, ReturnsSelf) >>,
            parent |-> "A"],
     C |-> [name |-> "C",
            methods |-> << Method("h", <<>>, ReturnsSelf) >>,
            parent |-> "B"],
     Q |-> [name |-> "Q",
            methods |-> << Method("__eq__", <<"other">>, Returns("other")) >>,
            parent |-> NoParent],
     Q2 |-> [name |-> "Q2", methods |-> <<>>, parent |-> "Q"],
     R |-> [name |-> "R",
            methods |-> << Method("__eq__", <<"a", "b">>, Returns("a")) >>,
            parent |-> NoParent],
     N |-> [name |-> "N",
            methods |-> << Method("__eq__", <<"other">>, ReturnsNothing) >>,
            parent |-> NoParent],
     W |-> [name |-> "W",
            methods |-> << Method("dup", <<"a", "a">>, Returns("a")),
                           Method("me", <<"self">>, ReturnsSelf),
                           Method("root", <<>>, Returns("one")),
                           Method("loc", <<"a">>, LocBody),
                           Method("echo", <<"v">>, EchoBody) >>,
            parent |-> NoParent],
     T |-> [name |-> "T",
            methods |-> << Method("__eq__", <<"other">>, Returns("other")),
                           Method("__lt__", <<"other">>, ReturnsNot("other")) >>,
            parent |-> NoParent],
     U |-> [name |-> "U",
            methods |-> << Method("__lt__", <<"other">>, Returns("other")) >>,
            parent |-> NoParent],
     X |-> [name |-> "X",
            methods |-> << Method("__lt__", <<"other">>, KeepsOther),
                           Method("__eq__", <<"other">>, ReturnsKept) >>,
            parent |-> NoParent],
     I |-> [name |-> "I",
            methods |-> << Method("__init__", <<"v">>, InitPrintingBody) >>,
            parent |-> NoParent],
     I2 |-> [name |-> "I2", methods |-> <<>>, parent |-> "I"],
     D |-> [name |-> "D",
            methods |-> << Method("__add__", <<"other">>, Returns("other")) >>,
            parent |-> NoParent],
     D2 |-> [name |-> "D2",
            methods |-> << Method("__add__", <<"a", "b">>, Returns("a")) >>,
            parent |-> NoParent]]

\* the class of the instance each NewInstance node owns
InstClass ==
    << "P", "K", "P", "S", "K", "C", "Q", "Q2", "R", "N", "W",
       "T", "U", "X", "I", "I2", "D", "D2" >>
InstIds == DOMAIN InstClass

-----------------------------------------------------------------------------
(* runtime.cpp: classes, method resolution, calls, printing, comparison.   *)
(* An operator named X_... continues operator X with the outcome of a call *)
(* X made.                                                                 *)

NullMethod == [name |-> "-", formal_params |-> <<>>, body |-> NullNode]

\* index of the last method named n in ms
LastNamed(ms, n) ==
    CHOOSE i \in DOMAIN ms :
        /\ ms[i].name = n
        /\ \A j \in DOMAIN ms : ms[j].name = n => j <= i

\* Class::Class: table_methods_[method.name] = &method, in the order of methods_
TableOf(ms) == [n \in {ms[i].name : i \in DOMAIN ms} |-> ms[LastNamed(ms, n)]]

table_methods(cls) == TableOf(ClassTable[cls].methods)

RECURSIVE GetMethod(_, _)

\* a GetMethod that looks in the table of the class alone
Class_GetMethod_Mutant(table, parent, name) ==
    IF name \in DOMAIN table THEN table[name] ELSE NullMethod

Class_GetMethod(table, parent, name) ==
    IF name \in DOMAIN table THEN table[name]
    ELSE IF parent # NoParent THEN GetMethod(parent, name) ELSE NullMethod

GetMethod(cls, name) == Class_GetMethod(table_methods(cls), ClassTable[cls].parent, name)

HasMethod_Arity(method_ptr, argument_count) ==
    /\ method_ptr # NullMethod
    /\ argument_count = Len(method_ptr.formal_params)

HasMethod(id, method, argument_count) ==
    HasMethod_Arity(GetMethod(InstClass[id], method), argument_count)

IsTrue(object) ==
    CASE object.t = "None" -> FALSE
      [] object.t = "Bool" -> object.b
      [] object.t = "Number" -> object.n # 0
      [] object.t = "String" -> object.s # ""
      [] OTHER -> FALSE

RECURSIVE Execute(_, _, _, _)

\* the loop of ClassInstance::Call that binds the formal parameters
RECURSIVE BindParams(_, _, _, _)
BindParams(frame, formal_params, actual_args, i) ==
    IF i > Len(formal_params) THEN frame
    ELSE BindParams(Bind(frame, formal_params[i], actual_args[i]),
                    formal_params, actual_args, i + 1)

\* a frame without self
Frame_Mutant(id, formal_params, actual_args) ==
    BindParams(EmptyClosure, formal_params, actual_args, 1)

\* the frame ClassInstance::Call builds: self, then the formal parameters
Frame(id, formal_params, actual_args) ==
    BindParams(Bind(EmptyClosure, "self", Inst(id)), formal_params, actual_args, 1)

ClassInstance_Call_Body(id, method_ptr, actual_args, h, o) ==
    IF Len(method_ptr.formal_params) > Len(actual_args)
    THEN Err("More arguments are expected", Bind(EmptyClosure, "self", Inst(id)), h, o)
    ELSE Execute(method_ptr.body, Frame(id, method_ptr.formal_params, actual_args), h, o)

\* the closure of the outcome is the frame the body ran in
ClassInstance_Call(id, method, actual_args, h, o) ==
    IF ~HasMethod(id, method, Len(actual_args))
    THEN Err("method was not found", EmptyClosure, h, o)
    ELSE ClassInstance_Call_Body(id, GetMethod(InstClass[id], method), actual_args, h, o)

Digits == <<"0", "1", "2", "3", "4", "5", "6", "7", "8", "9">>

RECURSIVE NatToString(_)
NatToString(n) ==
    IF n < 10 THEN Digits[n + 1] ELSE NatToString(n \div 10) \o Digits[(n % 10) + 1]

\* operator<< of an int
IntToString(n) == IF n < 0 THEN "-" \o NatToString(-n) ELSE NatToString(n)

\* Number::Print and String::Print (ValueObject<T>::Print, runtime.h)
ValueObject_Print(v) == IF v.t = "Number" THEN IntToString(v.n) ELSE v.s

\* os << this
AddressText(id) == "<instance " \o IntToString(id) \o ">"

\* Outcome of printing into the stream os: os, heap and out afterwards.
Printed(kind, val, err, os, h, o) ==
    [kind |-> kind, val |-> val, err |-> err, os |-> os, heap |-> h, out |-> o]

RECURSIVE Object_Print(_, _, _, _)

\* Call("__str__", {}, context)->Print(os, context), r the outcome of the call
ClassInstance_Print_Str(r, os) ==
    IF r.kind # "ok" THEN Printed(r.kind, r.val, r.err, os, r.heap, r.out)
    ELSE IF r.val = NoneV THEN Printed("abort", NoneV, "assert", os, r.heap, r.out)
    ELSE Object_Print(r.val, os, r.heap, r.out)

ClassInstance_Print(id, os, h, o) ==
    IF HasMethod(id, "__str__", 0)
    THEN ClassInstance_Print_Str(ClassInstance_Call(id, "__str__", <<>>, h, o), os)
    ELSE Printed("ok", NoneV, "", os \o AddressText(id), h, o)

\* Object::Print, dispatched on the object the holder refers to
Object_Print(v, os, h, o) ==
    CASE v.t \in {"Number", "String"} ->
            Printed("ok", NoneV, "", os \o ValueObject_Print(v), h, o)
      [] v.t = "Bool" ->
            Printed("ok", NoneV, "", os \o (IF v.b THEN "True" ELSE "False"), h, o)
      [] v.t = "Class" ->
            Printed("ok", NoneV, "", os \o "Class " \o ClassTable[v.c].name, h, o)
      [] v.t = "Instance" -> ClassInstance_Print(v.id, os, h, o)

\* Outcome of a comparator: b is the bool returned when kind = "ok".  kind "ub"
\* is the dereference of the null pointer TryAs<Bool>() returned.
Compared(kind, b, err, val, h, o) ==
    [kind |-> kind, b |-> b, err |-> err, val |-> val, heap |-> h, out |-> o]

\* the printable ASCII characters in the order of their codes: ' ' (32) to '_'
\* (95), and 'a' (97) to '~' (126)
AsciiLow ==
    " !\"#$%&'()*+,-./0123456789:;<=>?@ABCDEFGHIJKLMNOPQRSTUVWXYZ[\\]^_"
AsciiHigh == "abcdefghijklmnopqrstuvwxyz{|}~"

\* the code of ch if it is in table, whose first character has code `code`; else -1
RECURSIVE CharCodeFrom(_, _, _)
CharCodeFrom(ch, table, code) ==
    IF table = "" THEN -1
    ELSE IF Head(table) = ch THEN code
         ELSE CharCodeFrom(ch, Tail(table), code + 1)

CharCode(ch) ==
    IF CharCodeFrom(ch, AsciiLow, 32) # -1
    THEN CharCodeFrom(ch, AsciiLow, 32)
    ELSE CharCodeFrom(ch, AsciiHigh, 97)

\* operator< of std::string
RECURSIVE StringLess(_, _)
StringLess(a, b) ==
    IF b = "" THEN FALSE
    ELSE IF a = "" THEN TRUE
         ELSE IF Head(a) = Head(b) THEN StringLess(Tail(a), Tail(b))
              ELSE CharCode(Head(a)) < CharCode(Head(b))

\* Call(...).TryAs<Bool>()->GetValue(), r the outcome of the call
Compare_Result(r) ==
    IF r.kind # "ok" THEN Compared(r.kind, FALSE, r.err, r.val, r.heap, r.out)
    ELSE IF r.val.t # "Bool"
         THEN Compared("ub", FALSE, "null dereference", NoneV, r.heap, r.out)
         ELSE Compared("ok", r.val.b, "", NoneV, r.heap, r.out)

\* the dispatch to __eq__ / __lt__ shared by Equal and Less
CompareByMethod(method, lhs, rhs, h, o, message) ==
    IF lhs.t = "Instance" /\ HasMethod(lhs.id, method, 1)
    THEN Compare_Result(ClassInstance_Call(lhs.id, method, <<rhs>>, h, o))
    ELSE Compared("error", FALSE, message, NoneV, h, o)

Equal(lhs, rhs, h, o) ==
    IF lhs.t = "None" /\ rhs.t = "None" THEN Compared("ok", TRUE, "", NoneV, h, o)
    ELSE IF lhs.t = "Bool" /\ rhs.t = "Bool"
         THEN Compared("ok", lhs.b = rhs.b, "", NoneV, h, o)
    ELSE IF lhs.t = "Number" /\ rhs.t = "Number"
         THEN Compared("ok", lhs.n = rhs.n, "", NoneV, h, o)
    ELSE IF lhs.t = "String" /\ rhs.t = "String"
         THEN Compared("ok", lhs.s = rhs.s, "", NoneV, h, o)
    ELSE CompareByMethod("__eq__", lhs, rhs, h, o, "Cannot compare objects for equality")

\* a Less that compares Numbers with <=
Less_Mutant(lhs, rhs, h, o) ==
    IF lhs.t = "Bool" /\ rhs.t = "Bool"
    THEN Compared("ok", ~lhs.b /\ rhs.b, "", NoneV, h, o)
    ELSE IF lhs.t = "Number" /\ rhs.t = "Number"
         THEN Compared("ok", lhs.n <= rhs.n, "", NoneV, h, o)
    ELSE IF lhs.t = "String" /\ rhs.t = "String"
         THEN Compared("ok", StringLess(lhs.s, rhs.s), "", NoneV, h, o)
    ELSE CompareByMethod("__lt__", lhs, rhs, h, o, "Cannot compare objects for less")

Less(lhs, rhs, h, o) ==
    IF lhs.t = "Bool" /\ rhs.t = "Bool"
    THEN Compared("ok", ~lhs.b /\ rhs.b, "", NoneV, h, o)
    ELSE IF lhs.t = "Number" /\ rhs.t = "Number"
         THEN Compared("ok", lhs.n < rhs.n, "", NoneV, h, o)
    ELSE IF lhs.t = "String" /\ rhs.t = "String"
         THEN Compared("ok", StringLess(lhs.s, rhs.s), "", NoneV, h, o)
    ELSE CompareByMethod("__lt__", lhs, rhs, h, o, "Cannot compare objects for less")

\* !x of a comparator's outcome
Negated(e) == IF e.kind # "ok" THEN e ELSE [e EXCEPT !.b = ~e.b]

NotEqual(lhs, rhs, h, o) == Negated(Equal(lhs, rhs, h, o))

\* a Greater that is !Less(...)
Greater_Rest_Mutant(l, lhs, rhs) == Negated(l)

\* !Less(...) && NotEqual(...), l the outcome of Less
Greater_Rest(l, lhs, rhs) ==
    IF l.kind # "ok" THEN l
    ELSE IF l.b THEN [l EXCEPT !.b = FALSE]
         ELSE NotEqual(lhs, rhs, l.heap, l.out)

Greater(lhs, rhs, h, o) == Greater_Rest(Less(lhs, rhs, h, o), lhs, rhs)

\* Less(...) || Equal(...), l the outcome of Less
LessOrEqual_Rest(l, lhs, rhs) ==
    IF l.kind # "ok" THEN l
    ELSE IF l.b THEN l
         ELSE Equal(lhs, rhs, l.heap, l.out)

LessOrEqual(lhs, rhs, h, o) == LessOrEqual_Rest(Less(lhs, rhs, h, o), lhs, rhs)

GreaterOrEqual(lhs, rhs, h, o) == Negated(Less(lhs, rhs, h, o))

Comparator(cmp, lhs, rhs, h, o) ==
    CASE cmp = "Equal" -> Equal(lhs, rhs, h, o)
      [] cmp = "NotEqual" -> NotEqual(lhs, rhs, h, o)
      [] cmp = "Less" -> Less(lhs, rhs, h, o)
      [] cmp = "Greater" -> Greater(lhs, rhs, h, o)
      [] cmp = "LessOrEqual" -> LessOrEqual(lhs, rhs, h, o)
      [] cmp = "GreaterOrEqual" -> GreaterOrEqual(lhs, rhs, h, o)

-----------------------------------------------------------------------------
(* statement.cpp: the Execute method of each node.                         *)

NotFound == [found |-> FALSE, val |-> NoneV]

\* the loop of VariableValue::Execute from segment i on; new_closure is the
\* closure the segment is looked up in
RECURSIVE VariableValue_Loop(_, _, _, _)
VariableValue_Loop(dotted_ids, i, new_closure, h) ==
    IF i > Len(dotted_ids) THEN NotFound
    ELSE IF dotted_ids[i] \in DOMAIN new_closure
         THEN IF i = Len(dotted_ids)
              THEN [found |-> TRUE, val |-> new_closure[dotted_ids[i]]]
              ELSE IF new_closure[dotted_ids[i]].t = "Instance"
                   THEN VariableValue_Loop(dotted_ids, i + 1,
                                           h[new_closure[dotted_ids[i]].id], h)
                   ELSE VariableValue_Loop(dotted_ids, i + 1, new_closure, h)
         ELSE VariableValue_Loop(dotted_ids, i + 1, new_closure, h)

VariableValue_Result(r, c, h, o) ==
    IF r.found THEN Ok(r.val, c, h, o)
    ELSE Err("Unexpected error of the VariableValue::Execute method", c, h, o)

VariableValue_Execute(node, c, h, o) ==
    VariableValue_Result(VariableValue_Loop(node.dotted_ids, 1, c, h), c, h, o)

\* closure[variable_name_] = r, r the outcome of r_value_->Execute
Assignment_Bind(node, r) ==
    IF r.kind # "ok" THEN r
    ELSE Ok(r.val, Bind(r.closure, node.variable_name, r.val), r.heap, r.out)

Assignment_Execute(node, c, h, o) ==
    Assignment_Bind(node, Execute(node.r_value, c, h, o))

\* Fields()[field_name_]: the entry is created, empty, when it is missing
FieldEntry(h, id, field_name) ==
    IF field_name \in DOMAIN h[id] THEN h
    ELSE [h EXCEPT ![id] = Bind(h[id], field_name, NoneV)]

\* field = r; closure[field_name_] = field; r the outcome of r_value_->Execute
FieldAssignment_Store(node, id, r) ==
    IF r.kind # "ok" THEN r
    ELSE Ok(r.val,
            Bind(r.closure, node.field_name, r.val),
            [r.heap EXCEPT ![id] = Bind(r.heap[id], node.field_name, r.val)],
            r.out)

\* obj the outcome of object_.Execute
FieldAssignment_Target(node, obj, c, h, o) ==
    IF obj.kind # "ok" THEN obj
    ELSE IF obj.val.t # "Instance"
    THEN Err("FieldAssignment::Execute. The object is not a custom type", c, h, o)
    ELSE FieldAssignment_Store(node, obj.val.id,
            Execute(node.r_value, c, FieldEntry(h, obj.val.id, node.field_name), o))

FieldAssignment_Execute(node, c, h, o) ==
    FieldAssignment_Target(node, VariableValue_Execute(node.object, c, h, o), c, h, o)

None_Execute(node, c, h, o) == Ok(NoneV, c, h, o)

\* an outcome of Object::Print as the outcome of the node that printed
Thrown(p, c) ==
    [kind |-> p.kind, val |-> p.val, err |-> p.err, closure |-> c,
     heap |-> p.heap, out |-> p.out]

RECURSIVE Print_Loop(_, _, _, _, _, _)

\* obj->Print(os, context) done with outcome p: on to argument i + 1
Print_Printed(args, i, p, c) ==
    IF p.kind # "ok" THEN Thrown(p, c)
    ELSE Print_Loop(args, i + 1, p.os, c, p.heap, p.out)

\* argument i evaluated with outcome oh; os already holds the separator
Print_Arg(args, i, os, oh) ==
    IF oh.kind # "ok" THEN oh
    ELSE IF oh.val # NoneV
         THEN Print_Printed(args, i, Object_Print(oh.val, os, oh.heap, oh.out), oh.closure)
         ELSE Print_Loop(args, i + 1, os \o "None", oh.closure, oh.heap, oh.out)

\* a Print that writes no separator between its arguments
Print_Loop_Mutant(args, i, os, c, h, o) ==
    IF i > Len(args) THEN Ok(Str(os), c, h, o)
    ELSE Print_Arg(args, i, os, Execute(args[i], c, h, o))

\* the loop of Print::Execute from argument i on; os is the local ostringstream.
\* On "ok" the outcome's val is the String of os.
Print_Loop(args, i, os, c, h, o) ==
    IF i > Len(args) THEN Ok(Str(os), c, h, o)
    ELSE Print_Arg(args, i, IF i # 1 THEN os \o " " ELSE os, Execute(args[i], c, h, o))

\* a Print that ends the line also when an argument raised
Print_Flush_Mutant(r) ==
    IF r.kind # "ok" THEN [r EXCEPT !.out = @ \o "\n"]
    ELSE Ok(r.val, r.closure, r.heap, r.out \o r.val.s \o "\n")

\* context.GetOutputStream() << os.str() << endl
Print_Flush(r) ==
    IF r.kind # "ok" THEN r
    ELSE Ok(r.val, r.closure, r.heap, r.out \o r.val.s \o "\n")

Print_Execute(node, c, h, o) == Print_Flush(Print_Loop(node.args, 1, "", c, h, o))

RECURSIVE EvalArgs(_, _, _, _, _, _)

EvalArgs_Push(args, i, vals, a) ==
    IF a.kind # "ok" THEN [r |-> a, vals |-> vals]
    ELSE EvalArgs(args, i + 1, Append(vals, a.val), a.closure, a.heap, a.out)

\* the loop that evaluates argument expressions left to right, from argument i
\* on; vals are the holders collected so far
EvalArgs(args, i, vals, c, h, o) ==
    IF i > Len(args) THEN [r |-> Ok(NoneV, c, h, o), vals |-> vals]
    ELSE EvalArgs_Push(args, i, vals, Execute(args[i], c, h, o))

\* class_instance->Call(method_, actual_args, context), a the evaluated arguments
MethodCall_Dispatch(node, id, a) ==
    IF a.r.kind # "ok" THEN a.r
    ELSE InClosure(ClassInstance_Call(id, node.method, a.vals, a.r.heap, a.r.out),
                   a.r.closure)

\* a MethodCall that evaluates the arguments before it looks at the object
MethodCall_Late_Mutant(node, obj, a) ==
    IF a.r.kind # "ok" THEN a.r
    ELSE IF obj.val.t # "Instance"
    THEN Err("MethodCall::Execute. The object is not a custom type",
             a.r.closure, a.r.heap, a.r.out)
    ELSE IF ~HasMethod(obj.val.id, node.method, Len(node.args))
    THEN Err("MethodCall::Execute. The class does not have the method",
             a.r.closure, a.r.heap, a.r.out)
    ELSE MethodCall_Dispatch(node, obj.val.id, a)

MethodCall_Target_Mutant(node, obj) ==
    IF obj.kind # "ok" THEN obj
    ELSE MethodCall_Late_Mutant(node, obj,
            EvalArgs(node.args, 1, <<>>, obj.closure, obj.heap, obj.out))

\* obj the outcome of object_->Execute
MethodCall_Target(node, obj) ==
    IF obj.kind # "ok" THEN obj
    ELSE IF obj.val.t # "Instance"
    THEN Err("MethodCall::Execute. The object is not a custom type",
             obj.closure, obj.heap, obj.out)
    ELSE IF ~HasMethod(obj.val.id, node.method, Len(node.args))
    THEN Err("MethodCall::Execute. The class does not have the method",
             obj.closure, obj.heap, obj.out)
    ELSE MethodCall_Dispatch(node, obj.val.id,
            EvalArgs(node.args, 1, <<>>, obj.closure, obj.heap, obj.out))

MethodCall_Execute(node, c, h, o) == MethodCall_Target(node, Execute(node.object, c, h, o))

\* return ObjectHolder::Share(class_instance_), r the outcome of Call(INIT_METHOD)
NewInstance_Share(node, r, c) ==
    IF r.kind # "ok" THEN InClosure(r, c)
    ELSE Ok(Inst(node.class_instance), c, r.heap, r.out)

\* class_instance_.Call(INIT_METHOD, actual_args, context), a the evaluated arguments
NewInstance_Init(node, a) ==
    IF a.r.kind # "ok" THEN a.r
    ELSE NewInstance_Share(node,
            ClassInstance_Call(node.class_instance, "__init__", a.vals, a.r.heap, a.r.out),
            a.r.closure)

\* a NewInstance that calls __init__ whatever the class has
NewInstance_Execute_Mutant(node, c, h, o) ==
    NewInstance_Init(node, EvalArgs(node.args, 1, <<>>, c, h, o))

NewInstance_Execute(node, c, h, o) ==
    IF HasMethod(node.class_instance, "__init__", Len(node.args))
    THEN NewInstance_Init(node, EvalArgs(node.args, 1, <<>>, c, h, o))
    ELSE Ok(Inst(node.class_instance), c, h, o)

\* return ObjectHolder::Own(String(out.str())), p the outcome of obj_ptr->Print
Stringify_Own(p, c) ==
    IF p.kind # "ok" THEN Thrown(p, c) ELSE Ok(Str(p.os), c, p.heap, p.out)

\* arg the outcome of argument_->Execute
Stringify_Render(arg) ==
    IF arg.kind # "ok" THEN arg
    ELSE IF arg.val = NoneV THEN Ok(Str("None"), arg.closure, arg.heap, arg.out)
    ELSE Stringify_Own(Object_Print(arg.val, "", arg.heap, arg.out), arg.closure)

Stringify_Execute(node, c, h, o) == Stringify_Render(Execute(node.argument, c, h, o))

\* both operands of a BinaryOperation, lhs_ first
Operands(node, c, h, o) == EvalArgs(<<node.lhs, node.rhs>>, 1, <<>>, c, h, o)

\* the values of int
INT_MAX == 2147483647
INT_MIN == -INT_MAX - 1

\* the int division of C++ truncates towards zero; b is not 0, and a / b is
\* not INT_MIN / -1
TruncDiv(a, b) ==
    IF b > 0
    THEN IF a < 0 /\ a % b # 0 THEN (a \div b) + 1 ELSE a \div b
    ELSE IF b = INT_MIN THEN (IF a = INT_MIN THEN 1 ELSE 0)
    ELSE IF a > 0 /\ a % (-b) # 0 THEN (a \div b) + 1 ELSE a \div b

\* the result of the operator on two ints is no value of int
AddOverflows(a, b) == (b > 0 /\ a > INT_MAX - b) \/ (b < 0 /\ a < INT_MIN - b)
SubOverflows(a, b) == (b < 0 /\ a > INT_MAX + b) \/ (b > 0 /\ a < INT_MIN + b)
MultOverflows(a, b) ==
    CASE a = 0 \/ b = 0 -> FALSE
      [] a # 0 /\ b = INT_MIN -> a # 1
      [] a = INT_MIN /\ b \notin {0, INT_MIN} -> b # 1
      [] a > 0 /\ b > 0 -> a > INT_MAX \div b
      [] a > 0 /\ b < 0 /\ b # INT_MIN -> b < TruncDiv(INT_MIN, a)
      [] a < 0 /\ a # INT_MIN /\ b > 0 -> a < TruncDiv(INT_MIN, b)
      [] a < 0 /\ a # INT_MIN /\ b < 0 /\ b # INT_MIN -> -a > INT_MAX \div (-b)
DivOverflows(a, b) == a = INT_MIN /\ b = -1

\* int val = ...: the overflow of a signed int is undefined behaviour
SignedOverflow(c, h, o) ==
    [kind |-> "ub", val |-> NoneV, err |-> "signed overflow",
     closure |-> c, heap |-> h, out |-> o]

\* int val = lhs + rhs, lhs - rhs, lhs * rhs, lhs / rhs_val
Add_Numbers(a, b, c, h, o) ==
    IF AddOverflows(a, b) THEN SignedOverflow(c, h, o) ELSE Ok(Num(a + b), c, h, o)
Sub_Numbers(a, b, c, h, o) ==
    IF SubOverflows(a, b) THEN SignedOverflow(c, h, o) ELSE Ok(Num(a - b), c, h, o)
Mult_Numbers(a, b, c, h, o) ==
    IF MultOverflows(a, b) THEN SignedOverflow(c, h, o) ELSE Ok(Num(a * b), c, h, o)
Div_Numbers(a, b, c, h, o) ==
    IF DivOverflows(a, b) THEN SignedOverflow(c, h, o) ELSE Ok(Num(TruncDiv(a, b)), c, h, o)

\* a the evaluated operands
Add_Apply(lhs, rhs, c, h, o) ==
    IF lhs.t = "Number"
    THEN IF rhs.t = "Number" THEN Add_Numbers(lhs.n, rhs.n, c, h, o)
         ELSE Err("Add::Execute is failed", c, h, o)
    ELSE IF lhs.t = "String"
    THEN IF rhs.t = "String" THEN Ok(Str(lhs.s \o rhs.s), c, h, o)
         ELSE Err("Add::Execute is failed", c, h, o)
    ELSE IF lhs.t = "Instance"
    THEN IF HasMethod(lhs.id, "__add__", 1)
         THEN InClosure(ClassInstance_Call(lhs.id, "__add__", <<rhs>>, h, o), c)
         ELSE Err("Add::Execute is failed", c, h, o)
    ELSE Err("Add::Execute is failed", c, h, o)

Add_Operands(a) ==
    IF a.r.kind # "ok" THEN a.r
    ELSE Add_Apply(a.vals[1], a.vals[2], a.r.closure, a.r.heap, a.r.out)

Add_Execute(node, c, h, o) == Add_Operands(Operands(node, c, h, o))

Sub_Operands(a) ==
    IF a.r.kind # "ok" THEN a.r
    ELSE IF a.vals[1].t = "Number" /\ a.vals[2].t = "Number"
         THEN Sub_Numbers(a.vals[1].n, a.vals[2].n, a.r.closure, a.r.heap, a.r.out)
         ELSE Err("Sub::Execute is failed", a.r.closure, a.r.heap, a.r.out)

Sub_Execute(node, c, h, o) == Sub_Operands(Operands(node, c, h, o))

Mult_Operands(a) ==
    IF a.r.kind # "ok" THEN a.r
    ELSE IF a.vals[1].t = "Number" /\ a.vals[2].t = "Number"
         THEN Mult_Numbers(a.vals[1].n, a.vals[2].n, a.r.closure, a.r.heap, a.r.out)
         ELSE Err("Mult::Execute is failed", a.r.closure, a.r.heap, a.r.out)

Mult_Execute(node, c, h, o) == Mult_Operands(Operands(node, c, h, o))

Div_Operands(a) ==
    IF a.r.kind # "ok" THEN a.r
    ELSE IF a.vals[1].t = "Number" /\ a.vals[2].t = "Number" /\ a.vals[2].n # 0
         THEN Div_Numbers(a.vals[1].n, a.vals[2].n, a.r.closure, a.r.heap, a.r.out)
         ELSE Err("Div::Execute is failed", a.r.closure, a.r.heap, a.r.out)

Div_Execute(node, c, h, o) == Div_Operands(Operands(node, c, h, o))

\* TryAs<Bool>() gave a Bool whose value is true
IsTrueBool(v) == v.t = "Bool" /\ v.b

\* the result of Or and And once rhs_ was evaluated with outcome r
Logic_Rhs(r) ==
    IF r.kind # "ok" THEN r ELSE Ok(BoolV(IsTrueBool(r.val)), r.closure, r.heap, r.out)

\* an Or that evaluates rhs_ whatever lhs_ gave
Or_Lhs_Mutant(node, l) ==
    IF l.kind # "ok" THEN l
    ELSE Logic_Rhs(Execute(node.rhs, l.closure, l.heap, l.out))

Or_Lhs(node, l) ==
    IF l.kind # "ok" THEN l
    ELSE IF IsTrueBool(l.val) THEN Ok(BoolV(TRUE), l.closure, l.heap, l.out)
    ELSE Logic_Rhs(Execute(node.rhs, l.closure, l.heap, l.out))

Or_Execute(node, c, h, o) == Or_Lhs(node, Execute(node.lhs, c, h, o))

And_Lhs(node, l) ==
    IF l.kind # "ok" THEN l
    ELSE IF ~IsTrueBool(l.val) THEN Ok(BoolV(FALSE), l.closure, l.heap, l.out)
    ELSE Logic_Rhs(Execute(node.rhs, l.closure, l.heap, l.out))

And_Execute(node, c, h, o) == And_Lhs(node, Execute(node.lhs, c, h, o))

Not_Arg(a) ==
    IF a.kind # "ok" THEN a
    ELSE IF a.val.t # "Bool"
         THEN Err("Not::Execute. The argument cannot be cast to the Bool type",
                  a.closure, a.heap, a.out)
         ELSE Ok(BoolV(~a.val.b), a.closure, a.heap, a.out)

Not_Execute(node, c, h, o) == Not_Arg(Execute(node.argument, c, h, o))

RECURSIVE Compound_Loop(_, _, _, _, _)

\* a Compound that goes on with its next statement after a return signal
Compound_Next_Mutant(statements, i, r) ==
    IF r.kind \notin {"ok", "return"} THEN r
    ELSE Compound_Loop(statements, i + 1, r.closure, r.heap, r.out)

\* statement i executed with outcome r: an exception leaves the loop
Compound_Next(statements, i, r) ==
    IF r.kind # "ok" THEN r
    ELSE Compound_Loop(statements, i + 1, r.closure, r.heap, r.out)

\* the loop of Compound::Execute from statement i on
Compound_Loop(statements, i, c, h, o) ==
    IF i > Len(statements) THEN Ok(NoneV, c, h, o)
    ELSE Compound_Next(statements, i, Execute(statements[i], c, h, o))

Compound_Execute(node, c, h, o) == Compound_Loop(node.statements, 1, c, h, o)

\* a MethodBody that catches runtime errors as well and returns None
MethodBody_Catch_Mutant(r) ==
    IF r.kind \in {"return", "error"} THEN Ok(r.val, r.closure, r.heap, r.out) ELSE r

\* try { return body_->Execute(...); } catch (ObjectHolder result) { return result; }
MethodBody_Catch(r) ==
    IF r.kind = "return" THEN Ok(r.val, r.closure, r.heap, r.out) ELSE r

MethodBody_Execute(node, c, h, o) == MethodBody_Catch(Execute(node.body, c, h, o))

\* throw r, r the outcome of statement_->Execute
Return_Throw(r) ==
    IF r.kind # "ok" THEN r ELSE Ret(r.val, r.closure, r.heap, r.out)

Return_Execute(node, c, h, o) == Return_Throw(Execute(node.statement, c, h, o))

ClassDefinition_Execute(node, c, h, o) ==
    IF ClassTable[node.class].name = ""
    THEN Err("Name class is empty", c, h, o)
    ELSE Ok(ClassV(node.class), Bind(c, ClassTable[node.class].name, ClassV(node.class)), h, o)

\* condition the outcome of condition_->Execute
IfElse_Branch(node, condition) ==
    IF condition.kind # "ok" THEN condition
    ELSE IF condition.val.t = "Bool"
         THEN IF condition.val.b
              THEN Execute(node.if_body, condition.closure, condition.heap, condition.out)
              ELSE IF node.else_body # NullNode
                   THEN Execute(node.else_body, condition.closure, condition.heap,
                                condition.out)
                   ELSE Ok(NoneV, condition.closure, condition.heap, condition.out)
         ELSE Err("Execute is failed", condition.closure, condition.heap, condition.out)

IfElse_Execute(node, c, h, o) == IfElse_Branch(node, Execute(node.condition, c, h, o))

\* return ObjectHolder::Own(Bool(result)), result the outcome of cmp_
Comparison_Own(result, c) ==
    IF result.kind # "ok"
    THEN [kind |-> result.kind, val |-> result.val, err |-> result.err,
          closure |-> c, heap |-> result.heap, out |-> result.out]
    ELSE Ok(BoolV(result.b), c, result.heap, result.out)

Comparison_Operands(node, a) ==
    IF a.r.kind # "ok" THEN a.r
    ELSE Comparison_Own(Comparator(node.cmp, a.vals[1], a.vals[2], a.r.heap, a.r.out),
                        a.r.closure)

Comparison_Execute(node, c, h, o) == Comparison_Operands(node, Operands(node, c, h, o))

\* Statement::Execute, dispatched on the node's class
Execute(node, c, h, o) ==
    CASE node.k = "VariableValue" -> VariableValue_Execute(node, c, h, o)
      [] node.k = "Assignment" -> Assignment_Execute(node, c, h, o)
      [] node.k = "FieldAssignment" -> FieldAssignment_Execute(node, c, h, o)
      [] node.k = "None" -> None_Execute(node, c, h, o)
      [] node.k = "Print" -> Print_Execute(node, c, h, o)
      [] node.k = "MethodCall" -> MethodCall_Execute(node, c, h, o)
      [] node.k = "NewInstance" -> NewInstance_Execute(node, c, h, o)
      [] node.k = "Stringify" -> Stringify_Execute(node, c, h, o)
      [] node.k = "Add" -> Add_Execute(node, c, h, o)
      [] node.k = "Sub" -> Sub_Execute(node, c, h, o)
      [] node.k = "Mult" -> Mult_Execute(node, c, h, o)
      [] node.k = "Div" -> Div_Execute(node, c, h, o)
      [] node.k = "Or" -> Or_Execute(node, c, h, o)
      [] node.k = "And" -> And_Execute(node, c, h, o)
      [] node.k = "Not" -> Not_Execute(node, c, h, o)
      [] node.k = "Compound" -> Compound_Execute(node, c, h, o)
      [] node.k = "MethodBody" -> MethodBody_Execute(node, c, h, o)
      [] node.k = "Return" -> Return_Execute(node, c, h, o)
      [] node.k = "ClassDefinition" -> ClassDefinition_Execute(node, c, h, o)
      [] node.k = "IfElse" -> IfElse_Execute(node, c, h, o)
      [] node.k = "Comparison" -> Comparison_Execute(node, c, h, o)

-----------------------------------------------------------------------------
(* The evaluator as a state machine: the embedder executes statements one  *)
(* after the other against the root closure and the context.               *)

\* number of statements the embedder executes after the prelude
MaxSteps == 2

V(name) == VarV(<<name>>)

\* one = 1; zero = 0; s = 'a'; t = True; f = False are bound by the embedder;
\* then: p = P(); k = K(one); w = S(s)
Prelude ==
    CompoundNode(<<
        Assign("p", NewInst(1, <<>>)),
        Assign("k", NewInst(2, <<V("one")>>)),
        Assign("w", NewInst(4, <<V("s")>>)) >>)

PrimitiveBindings ==
    [one |-> Num(1), zero |-> Num(0), s |-> Str("a"), t |-> BoolV(TRUE), f |-> BoolV(FALSE)]

VariableValueNodes ==
    { V("one"), V("nope"), VarV(<<"p", "f">>), VarV(<<"k", "v">>),
      VarV(<<"one", "s">>), VarV(<<"nope", "s">>), VarV(<<"p", "nope">>),
      VarV(<<"k", "v", "after">>), VarV(<<"nope", "k", "v">>) }

AssignmentNodes ==
    { Assign("p", NewInst(1, <<>>)), Assign("q", NewInst(1, <<>>)),
      Assign("k2", NewInst(2, <<V("one")>>)), Assign("j", NewInst(5, <<>>)),
      Assign("x", V("one")), Assign("x", V("nope")) }

FieldAssignmentNodes ==
    { FieldAssign(<<"p">>, "f", V("one")), FieldAssign(<<"p">>, "s", V("t")),
      FieldAssign(<<"k">>, "v", V("zero")), FieldAssign(<<"one">>, "f", V("one")),
      FieldAssign(<<"p">>, "f", V("nope")), FieldAssign(<<"p">>, "h", VarV(<<"p", "h">>)),
      FieldAssign(<<"k">>, "n", MethodCallNode(V("k"), "inner", <<V("f"), V("s")>>)) }

PrintNodes ==
    { PrintNode(<<>>), PrintNode(<<V("one")>>), PrintNode(<<V("p")>>),
      PrintNode(<<V("k")>>), PrintNode(<<V("s"), NoneNode, V("t")>>),
      PrintNode(<<V("one"), V("nope")>>), PrintNode(<<V("w"), V("zero")>>) }

MethodCallNodes ==
    { MethodCallNode(V("k"), "inner", <<V("t"), V("one")>>),
      MethodCallNode(V("k"), "inner", <<V("f"), V("one")>>),
      MethodCallNode(V("k"), "inner", <<V("one"), V("one")>>),
      MethodCallNode(V("k"), "outer", <<V("t"), V("s")>>),
      MethodCallNode(V("k"), "outer", <<V("f"), V("one")>>),
      MethodCallNode(V("k"), "bad", <<>>),
      MethodCallNode(V("k"), "div", <<V("one"), V("zero")>>),
      MethodCallNode(V("k"), "div", <<V("one"), V("one")>>),
      MethodCallNode(V("k"), "div", <<V("s"), V("one")>>),
      MethodCallNode(V("k"), "nometh", <<>>),
      MethodCallNode(V("k"), "mk", <<V("t")>>),
      MethodCallNode(V("k"), "mk", <<V("f")>>),
      MethodCallNode(V("k"), "zzz", <<V("nope")>>),
      MethodCallNode(V("one"), "inner", <<V("t"), V("one")>>) }

StringifyNodes ==
    { StringifyNode(NoneNode), StringifyNode(V("one")), StringifyNode(V("s")),
      StringifyNode(V("t")), StringifyNode(V("P")), StringifyNode(V("p")),
      StringifyNode(V("w")), StringifyNode(V("k")) }

ClassDefinitionNodes == { ClassDefNode("P"), ClassDefNode("K") }

\* statement trees in which a Return is not under any MethodBody
CompoundNodes ==
    { CompoundNode(<<ReturnNode(V("one")), Assign("x", V("zero"))>>),
      CompoundNode(<<IfElseNode(V("t"), ReturnNode(V("s")), NullNode),
                     PrintNode(<<V("s")>>)>>),
      CompoundNode(<<ReturnNode(V("nope"))>>),
      CompoundNode(<<Assign("x", V("s")), PrintNode(<<V("x")>>)>>),
      CompoundNode(<<IfElseNode(V("f"), ReturnNode(V("s")), NullNode),
                     Assign("y", V("t"))>>) }

EmptyHeap == [i \in InstIds |-> EmptyClosure]

Outcome(r) == [kind |-> r.kind, val |-> r.val, err |-> r.err]
NoOutcome == [kind |-> "none", val |-> NoneV, err |-> ""]

\* the state the prelude leaves, r its outcome
InitEval_After(r) ==
    /\ closure = r.closure
    /\ heap = r.heap
    /\ out = r.out
    /\ last = [node |-> Prelude, closure |-> PrimitiveBindings, heap |-> EmptyHeap,
               out |-> "", res |-> Outcome(r)]
    /\ steps = 0

InitEval == InitEval_After(Execute(Prelude, PrimitiveBindings, EmptyHeap, ""))

Run_Result(node, r) ==
    /\ closure' = r.closure
    /\ heap' = r.heap
    /\ out' = r.out
    /\ last' = [node |-> node, closure |-> closure, heap |-> heap, out |-> out,
                res |-> Outcome(r)]

\* the embedder is still running: it stops after MaxSteps statements, and an
\* abort ends the process
Running ==
    /\ steps < MaxSteps
    /\ last.res.kind \notin {"abort", "ub"}

\* the embedder calls node.Execute(closure, context)
Run(node) ==
    /\ Run_Result(node, Execute(node, closure, heap, out))
    /\ steps' = steps + 1
    /\ UNCHANGED lexVars

ExecVariableValue == \E node \in VariableValueNodes : Running /\ Run(node)
ExecAssignment == \E node \in AssignmentNodes : Running /\ Run(node)
ExecFieldAssignment == \E node \in FieldAssignmentNodes : Running /\ Run(node)
ExecPrint == \E node \in PrintNodes : Running /\ Run(node)
ExecMethodCall == \E node \in MethodCallNodes : Running /\ Run(node)
ExecStringify == \E node \in StringifyNodes : Running /\ Run(node)
ExecClassDefinition == \E node \in ClassDefinitionNodes : Running /\ Run(node)
ExecCompound == \E node \in CompoundNodes : Running /\ Run(node)

NextEval ==
    \/ ExecVariableValue
    \/ ExecAssignment
    \/ ExecFieldAssignment
    \/ ExecPrint
    \/ ExecMethodCall
    \/ ExecStringify
    \/ ExecClassDefinition
    \/ ExecCompound

-----------------------------------------------------------------------------
(* The runtime called by the embedder itself: Class::GetMethod,            *)
(* ClassInstance::Call and Equal, on the classes and instances above, in   *)
(* the state the prelude left.                                             *)

\* number of calls the embedder makes
MaxCalls == 1

Calling ==
    /\ steps < MaxCalls
    /\ last.res.kind # "abort"

MethodNames == {"f", "g", "h", "b", "zzz", "__eq__", "__init__", "inner"}

\* cls.GetMethod(name)
Call_GetMethod ==
    \E cls \in DOMAIN ClassTable, name \in MethodNames :
        /\ Calling
        /\ last' = [node |-> [k |-> "GetMethod", class |-> cls, name |-> name],
                    closure |-> closure, heap |-> heap, out |-> out,
                    res |-> [kind |-> "ok", val |-> GetMethod(cls, name), err |-> ""]]
        /\ steps' = steps + 1
        /\ UNCHANGED <<closure, heap, out, lexVars>>

Receivers == {2, 6, 11}
CalledMethods ==
    {"f", "g", "h", "b", "zzz", "inner", "mk", "bad", "dup", "me", "root", "loc"}
ActualArgs ==
    { <<>>, <<Num(1)>>, <<Str("a")>>, <<BoolV(TRUE), Num(1)>>,
      <<Num(1), Str("a")>>, <<Inst(1)>> }

\* the outcome r of a call as the embedder sees it; frame is the Closure the
\* body was executed against, as the body left it
CallOutcome(r) == [kind |-> r.kind, val |-> r.val, err |-> r.err, frame |-> r.closure]

Call_Returned(node, r) ==
    /\ heap' = r.heap
    /\ out' = r.out
    /\ last' = [node |-> node, closure |-> closure, heap |-> heap, out |-> out,
                res |-> CallOutcome(r)]

\* instance.Call(method, actual_args, context): the closure of the caller is
\* no argument of the call
Call_ClassInstanceCall ==
    \E id \in Receivers, method \in CalledMethods, actual_args \in ActualArgs :
        /\ Calling
        /\ Call_Returned([k |-> "Call", id |-> id, method |-> method,
                          actual_args |-> actual_args],
                         ClassInstance_Call(id, method, actual_args, heap, out))
        /\ steps' = steps + 1
        /\ UNCHANGED <<closure, lexVars>>

EqualOperands ==
    { NoneV, Num(0), Num(1), Str("a"), Str(""), BoolV(TRUE), BoolV(FALSE),
      Inst(1), Inst(7), Inst(8), Inst(9), Inst(10) }

\* what a comparator's outcome e is for the caller: the dereference of a null
\* pointer is undefined, the process stops or a bool of any value is read
Outcomes(e) ==
    IF e.kind # "ub" THEN {e}
    ELSE { [e EXCEPT !.kind = "abort"],
           [e EXCEPT !.kind = "ok", !.err = "", !.b = TRUE],
           [e EXCEPT !.kind = "ok", !.err = "", !.b = FALSE] }

Equal_Returned(node, e) ==
    /\ heap' = e.heap
    /\ out' = e.out
    /\ last' = [node |-> node, closure |-> closure, heap |-> heap, out |-> out,
                res |-> [kind |-> e.kind, val |-> BoolV(e.b), err |-> e.err]]

\* Equal(lhs, rhs, context)
Call_Equal ==
    \E lhs \in EqualOperands, rhs \in EqualOperands :
        \E e \in Outcomes(Equal(lhs, rhs, heap, out)) :
            /\ Calling
            /\ Equal_Returned([k |-> "Equal", lhs |-> lhs, rhs |-> rhs], e)
            /\ steps' = steps + 1
            /\ UNCHANGED <<closure, lexVars>>

Comparators ==
    {"Equal", "NotEqual", "Less", "Greater", "LessOrEqual", "GreaterOrEqual"}

Primitives ==
    { NoneV, Num(-1), Num(0), Num(1), Str(""), Str("a"), Str("ab"), Str("b"),
      BoolV(TRUE), BoolV(FALSE) }

\* instances of Q (__eq__), T (__eq__, __lt__), U (__lt__), X (__lt__ keeps its
\* argument for __eq__) and P (neither)
ComparedInstances == {Inst(7), Inst(12), Inst(13), Inst(14), Inst(1)}

ComparedPairs ==
    {pair \in Primitives \X Primitives : pair[1].t = pair[2].t}
        \cup {<<NoneV, Num(1)>>, <<Num(1), Str("a")>>, <<Str("a"), BoolV(TRUE)>>,
              <<BoolV(FALSE), NoneV>>, <<Num(1), Inst(12)>>}
        \cup (ComparedInstances \X {BoolV(TRUE), BoolV(FALSE), Num(1)})

\* NotEqual, Less, Greater, LessOrEqual, GreaterOrEqual and Equal again
Call_Comparator ==
    \E cmp \in Comparators, pair \in ComparedPairs :
        \E e \in Outcomes(Comparator(cmp, pair[1], pair[2], heap, out)) :
            /\ Calling
            /\ Equal_Returned([k |-> "Comparator", cmp |-> cmp,
                               lhs |-> pair[1], rhs |-> pair[2]], e)
            /\ steps' = steps + 1
            /\ UNCHANGED <<closure, lexVars>>

NextRuntime ==
    \/ Call_GetMethod
    \/ Call_ClassInstanceCall
    \/ Call_Equal
    \/ Call_Comparator

-----------------------------------------------------------------------------
(* Single nodes executed by the embedder: the arithmetic and the logical   *)
(* operations, Print, MethodCall, NewInstance and FieldAssignment, with    *)
(* operands and arguments that raise or have effects of their own.         *)

\* one = 1; zero = 0; neg = -1; big and low are the ends of int; s = 'a';
\* e = ''; t = True; f = False
NodeBindings ==
    [one |-> Num(1), zero |-> Num(0), neg |-> Num(-1), big |-> Num(INT_MAX),
     low |-> Num(INT_MIN), s |-> Str("a"), e |-> Str(""),
     t |-> BoolV(TRUE), f |-> BoolV(FALSE)]

\* p = P(); k = K(one); w = S(s); u = W(); d = D(); d2 = D2()
NodePrelude ==
    CompoundNode(<<
        Assign("p", NewInst(1, <<>>)),
        Assign("k", NewInst(2, <<V("one")>>)),
        Assign("w", NewInst(4, <<V("s")>>)),
        Assign("u", NewInst(11, <<>>)),
        Assign("d", NewInst(17, <<>>)),
        Assign("d2", NewInst(18, <<>>)) >>)

InitNodes_After(r) ==
    /\ closure = r.closure
    /\ heap = r.heap
    /\ out = r.out
    /\ last = [node |-> NodePrelude, closure |-> NodeBindings, heap |-> EmptyHeap,
               out |-> "", res |-> Outcome(r)]
    /\ steps = 0

InitNodes == InitNodes_After(Execute(NodePrelude, NodeBindings, EmptyHeap, ""))

\* ints that stand for the int an overflowed operation leaves
SomeInts == {INT_MIN, -2, -1, 0, 1, 2, INT_MAX}

\* what the outcome r of a node is for the embedder.  Undefined behaviour has
\* no one outcome: the process stops, or the operation gives a value that is
\* not its result (an int after an overflow, a bool read through the null
\* pointer)
Resolved(r) ==
    IF r.kind # "ub" THEN {r}
    ELSE {[r EXCEPT !.kind = "abort"]}
         \cup IF r.err = "signed overflow"
              THEN {[r EXCEPT !.kind = "ok", !.err = "", !.val = Num(n)] : n \in SomeInts}
              ELSE {[r EXCEPT !.kind = "ok", !.err = "", !.val = BoolV(b)] :
                       b \in BOOLEAN}

\* the embedder calls node.Execute(closure, context)
RunNode(node) ==
    /\ \E r \in Resolved(Execute(node, closure, heap, out)) : Run_Result(node, r)
    /\ steps' = steps + 1
    /\ UNCHANGED lexVars

ArithmeticKinds == {"Add", "Sub", "Mult", "Div"}

ArithmeticOperands ==
    { V("one"), V("zero"), V("neg"), V("big"), V("low"), V("s"),
      V("p"), V("d"), V("d2"), NoneNode }

\* every pairing of the operands for Add; for Sub, Mult and Div, which call
\* no method, the instances d and d2 once; operands that raise, print or assign
ArithmeticNodes ==
    {BinOp("Add", lhs, rhs) : lhs \in ArithmeticOperands, rhs \in ArithmeticOperands}
    \cup {BinOp(kind, lhs, rhs) :
            kind \in ArithmeticKinds \ {"Add"},
            lhs \in ArithmeticOperands \ {V("d"), V("d2")},
            rhs \in ArithmeticOperands \ {V("d"), V("d2")}}
    \cup {BinOp("Sub", V("d"), V("one")), BinOp("Mult", V("one"), V("d"))}
    \cup {BinOp(kind, V("nope"), PrintNode(<<V("s")>>)) : kind \in ArithmeticKinds}
    \cup {BinOp(kind, Assign("x", V("one")), V("x")) : kind \in ArithmeticKinds}

ExecArithmetic == \E node \in ArithmeticNodes : Calling /\ RunNode(node)

\* u.echo(x): prints x and returns it
Echo(name) == MethodCallNode(V("u"), "echo", <<V(name)>>)

\* operands that are Bools or not, that raise, print or assign
LogicOperands ==
    { V("t"), V("f"), V("s"), V("p"), NoneNode, V("nope"),
      Echo("t"), Echo("f"), Echo("zero"), Assign("x", V("t")) }

LogicKinds == {"Or", "And"}

LogicNodes ==
    {BinOp(kind, lhs, rhs) : kind \in LogicKinds, lhs \in LogicOperands, rhs \in LogicOperands}

ExecLogic == \E node \in LogicNodes : Calling /\ RunNode(node)

\* arguments that render as text, that are None, that raise, that print when
\* they are evaluated (u.echo, a Print) or rendered (k, whose __str__ prints),
\* and that assign
PrintArgs ==
    { V("one"), V("s"), V("e"), NoneNode, V("nope"), Echo("f"), V("k"),
      Assign("x", V("one")), V("x"), PrintNode(<<V("s")>>) }

PrintedNodes ==
    {PrintNode(<<>>)}
    \cup {PrintNode(<<a>>) : a \in PrintArgs}
    \cup {PrintNode(<<a, b>>) : a \in PrintArgs, b \in PrintArgs}
    \cup {PrintNode(<<Echo("f"), V("k"), V("s")>>), PrintNode(<<V("k"), V("nope"), V("s")>>)}

ExecPrinted == \E node \in PrintedNodes : Calling /\ RunNode(node)

\* objects that are instances or not, that raise and that assign
CalledObjects == { V("u"), V("one"), V("p"), V("nope"), Assign("y", V("u")) }

\* arguments that print, raise and assign
CallArgs == { Echo("t"), V("nope"), Assign("x", V("one")) }

CallArgLists ==
    {<<>>} \cup {<<a>> : a \in CallArgs} \cup {<<a, b>> : a \in CallArgs, b \in CallArgs}

\* echo has one parameter, dup two, no class has zzz
CallNodes ==
    {MethodCallNode(obj, method, args) :
        obj \in CalledObjects, method \in {"echo", "zzz"}, args \in CallArgLists}
    \cup {MethodCallNode(V("u"), "dup", args) : args \in CallArgLists}

ExecCall == \E node \in CallNodes : Calling /\ RunNode(node)

\* class P has no __init__, I has __init__(v), which prints v, keeps it and
\* returns it, I2 inherits it from I
ConstructedIds == {3, 15, 16}

ConstructArgs == { Echo("t"), V("nope"), Assign("x", V("one")), V("s") }

ConstructArgLists ==
    {<<>>} \cup {<<a>> : a \in ConstructArgs}
           \cup {<<a, b>> : a \in ConstructArgs, b \in ConstructArgs}

ConstructNodes == {NewInst(id, args) : id \in ConstructedIds, args \in ConstructArgLists}

ExecConstruct == \E node \in ConstructNodes : Calling /\ RunNode(node)

\* right-hand sides that give a value, that raise, that print and that read a
\* field of the instance assigned to
StoredValues ==
    { V("one"), V("nope"), Echo("t"), BinOp("Div", V("one"), V("zero")),
      VarV(<<"p", "f">>), VarV(<<"k", "v">>), VarV(<<"k", "g">>) }

\* p has no field, k has the field v; one is not an instance
StoreNodes ==
    {FieldAssign(<<obj>>, field_name, r_value) :
        obj \in {"p", "k", "one"}, field_name \in {"f", "g", "v"}, r_value \in StoredValues}

ExecStore == \E node \in StoreNodes : Calling /\ RunNode(node)

NextNodes ==
    \/ ExecArithmetic
    \/ ExecLogic
    \/ ExecPrinted
    \/ ExecCall
    \/ ExecConstruct
    \/ ExecStore

-----------------------------------------------------------------------------
(* lexer.cpp: the input stream.  A character is a string of length one,    *)
(* the stream is the sequence of the characters not yet extracted plus the *)
(* state bits of std::istream that the lexer depends on.                   *)

\* char_traits<char>::eof(): what peek() and get() return without a character
EOFc == "EOF"

LowerChars ==
    {"a", "b", "c", "d", "e", "f", "g", "h", "i", "j", "k", "l", "m",
     "n", "o", "p", "q", "r", "s", "t", "u", "v", "w", "x", "y", "z"}
UpperChars ==
    {"A", "B", "C", "D", "E", "F", "G", "H", "I", "J", "K", "L", "M",
     "N", "O", "P", "Q", "R", "S", "T", "U", "V", "W", "X", "Y", "Z"}
DigitChars == {"0", "1", "2", "3", "4", "5", "6", "7", "8", "9"}
\* the grave accent, which is punctuation as well, cannot be written here
PunctChars ==
    {"!", "\"", "#", "$", "%", "&", "'", "(", ")", "*", "+", ",", "-", ".", "/",
     ":", ";", "<", "=", ">", "?", "@", "[", "\\", "]", "^", "_", "{", "|", "}", "~"}

isalpha(c) == c \in LowerChars \cup UpperChars
isdigit(c) == c \in DigitChars
isalnum(c) == isalpha(c) \/ isdigit(c)
ispunct(c) == c \in PunctChars

\* the Lexer under construction: the stream input_tokens_ (rest, eofbit,
\* failbit), the members tokens_, index_current_token_ and current_dent_, and
\* the exception that left ParseTokens, if any
NewLexer(text) ==
    [rest |-> text, eofbit |-> FALSE, failbit |-> FALSE,
     tokens |-> <<>>, index_current_token |-> 0, current_dent |-> 0, err |-> ""]

good(s) == ~s.eofbit /\ ~s.failbit

\* the value of peek(), and of get() as well
peek(s) == IF good(s) /\ s.rest # <<>> THEN Head(s.rest) ELSE EOFc

\* the stream after peek(): the sentry fails a stream that is not good, the
\* end of the characters sets eofbit
AfterPeek(s) ==
    IF ~good(s) THEN [s EXCEPT !.failbit = TRUE]
    ELSE IF s.rest = <<>> THEN [s EXCEPT !.eofbit = TRUE]
    ELSE s

\* the stream after get() and get(c)
AfterGet(s) ==
    IF ~good(s) THEN [s EXCEPT !.failbit = TRUE]
    ELSE IF s.rest = <<>> THEN [s EXCEPT !.eofbit = TRUE, !.failbit = TRUE]
    ELSE [s EXCEPT !.rest = Tail(@)]

\* the stream after putback(c): eofbit is cleared first
putback(s, c) ==
    IF s.failbit THEN [s EXCEPT !.eofbit = FALSE]
    ELSE [s EXCEPT !.eofbit = FALSE, !.rest = <<c>> \o @]

\* the stream after getline(input, str): through the first '\n', or to the end
RECURSIVE SkipLine(_)
SkipLine(rest) ==
    IF rest = <<>> THEN <<>>
    ELSE IF Head(rest) = "\n" THEN Tail(rest)
    ELSE SkipLine(Tail(rest))

HasNewline(rest) == \E i \in DOMAIN rest : rest[i] = "\n"

getline(s) ==
    IF ~good(s) THEN [s EXCEPT !.failbit = TRUE]
    ELSE IF s.rest = <<>> THEN [s EXCEPT !.eofbit = TRUE, !.failbit = TRUE]
    ELSE [s EXCEPT !.rest = SkipLine(@), !.eofbit = ~HasNewline(s.rest)]

-----------------------------------------------------------------------------
(* lexer.cpp: tokens and the Extract functions.  Each takes the lexer as   *)
(* it is and gives the lexer as the function leaves it.                    *)

Tok(type) == [type |-> type]
Valued(type, value) == [type |-> type, value |-> value]

emplace_back(s, tok) == [s EXCEPT !.tokens = Append(@, tok)]
LexerError(s, what) == [s EXCEPT !.err = what]

back(s) == s.tokens[Len(s.tokens)]
BackIs(s, types) == s.tokens # <<>> /\ back(s).type \in types

IsEof(s) == peek(s) = EOFc

\* while (input.get(symbol)) of detail::ReadWord; the word and the stream
RECURSIVE ReadWord(_, _)
ReadWord(s, parsed_word) ==
    IF peek(s) = EOFc THEN [s |-> AfterGet(s), word |-> parsed_word]
    ELSE IF isalnum(peek(s)) \/ peek(s) = "_"
    THEN ReadWord(AfterGet(s), parsed_word \o peek(s))
    ELSE [s |-> putback(AfterGet(s), peek(s)), word |-> parsed_word]

Keywords ==
    {"class", "return", "if", "else", "def", "print", "or", "None", "and", "not",
     "True", "False"}

\* the token type AddKeyword emplaces for a keyword
KeywordType(word) ==
    CASE word = "class" -> "Class"
      [] word = "return" -> "Return"
      [] word = "if" -> "If"
      [] word = "else" -> "Else"
      [] word = "def" -> "Def"
      [] word = "print" -> "Print"
      [] word = "or" -> "Or"
      [] word = "None" -> "None"
      [] word = "and" -> "And"
      [] word = "not" -> "Not"
      [] word = "True" -> "True"
      [] word = "False" -> "False"

\* w the word and the stream ReadWord left
AddKeyword(w) ==
    IF w.word \in Keywords THEN emplace_back(w.s, Tok(KeywordType(w.word)))
    ELSE emplace_back(w.s, Valued("Id", w.word))

ExtractKeywordOrId(s) ==
    IF IsEof(s) THEN AfterPeek(s)
    ELSE IF ~isalpha(peek(s)) /\ peek(s) # "_" THEN s
    ELSE AddKeyword(ReadWord(s, ""))

\* s1 the stream after first_symbol was extracted
OperatorEqOrSymbol(s1, first_symbol) ==
    IF first_symbol \notin {"!", "=", ">", "<"}
    THEN emplace_back(s1, Valued("Char", first_symbol))
    ELSE IF peek(s1) # "="
    THEN emplace_back(AfterPeek(s1), Valued("Char", first_symbol))
    ELSE emplace_back(AfterGet(s1),
                      Tok(CASE first_symbol = "!" -> "NotEq"
                            [] first_symbol = "=" -> "Eq"
                            [] first_symbol = ">" -> "GreaterOrEq"
                            [] first_symbol = "<" -> "LessOrEq"))

ExtractOperatorEqOrSymbol(s) ==
    IF IsEof(s) THEN AfterPeek(s)
    ELSE IF peek(s) = "#" THEN s
    ELSE IF ~ispunct(peek(s)) \/ peek(s) = "\"" \/ peek(s) = "'"
    THEN putback(AfterGet(s), peek(s))
    ELSE OperatorEqOrSymbol(AfterGet(s), peek(s))

\* while (input.get(symbol)) of ExtractIntValue; the digits and the stream
RECURSIVE ReadDigits(_, _)
ReadDigits(s, parsed_num) ==
    IF peek(s) = EOFc THEN [s |-> AfterGet(s), num |-> parsed_num]
    ELSE IF isdigit(peek(s)) THEN ReadDigits(AfterGet(s), parsed_num \o peek(s))
    ELSE [s |-> putback(AfterGet(s), peek(s)), num |-> parsed_num]

DigitValue(c) == CHOOSE d \in 0..9 : Digits[d + 1] = c

\* std::stoi of a string of digits, -1 when it throws std::out_of_range
RECURSIVE stoi(_, _)
stoi(str, acc) ==
    IF acc > INT_MAX THEN -1
    ELSE IF str = "" THEN acc
    ELSE stoi(Tail(str), acc * 10 + DigitValue(Head(str)))

\* d the digits and the stream ReadDigits left
IntValue(d) ==
    IF stoi(d.num, 0) < 0 THEN [d.s EXCEPT !.err = "stoi"]
    ELSE emplace_back(d.s, Valued("Number", stoi(d.num, 0)))

ExtractIntValue(s) ==
    IF IsEof(s) THEN AfterPeek(s)
    ELSE IF isdigit(peek(s)) THEN IntValue(ReadDigits(AfterGet(s), peek(s)))
    ELSE putback(AfterGet(s), peek(s))

\* the character an escape sequence stands for, EOFc for an unrecognized one
Escaped(special_symbol) ==
    CASE special_symbol = "n" -> "\n"
      [] special_symbol = "t" -> "\t"
      [] special_symbol = "r" -> "\r"
      [] special_symbol = "\"" -> "\""
      [] special_symbol = "\\" -> "\\"
      [] special_symbol = "'" -> "'"
      [] OTHER -> EOFc

\* while (input.get(symbol)) of ExtractString
RECURSIVE ReadString(_, _, _)

\* s the stream after the backslash was extracted
ReadEscape(s, begin_symbol, str) ==
    IF peek(s) = EOFc THEN LexerError(AfterGet(s), "The line was not closed")
    ELSE IF Escaped(peek(s)) = EOFc
    THEN LexerError(AfterGet(s), "Unrecognized escape sequence \\" \o peek(s))
    ELSE ReadString(AfterGet(s), begin_symbol, str \o Escaped(peek(s)))

ReadString(s, begin_symbol, str) ==
    IF peek(s) = EOFc THEN emplace_back(AfterGet(s), Valued("String", str))
    ELSE IF peek(s) = begin_symbol THEN emplace_back(AfterGet(s), Valued("String", str))
    ELSE IF peek(s) = "\\" THEN ReadEscape(AfterGet(s), begin_symbol, str)
    ELSE IF peek(s) = "\n" \/ peek(s) = "\r"
    THEN LexerError(AfterGet(s), "Unexpected end of line")
    ELSE ReadString(AfterGet(s), begin_symbol, str \o peek(s))

ExtractString(s) ==
    IF IsEof(s) THEN AfterPeek(s)
    ELSE IF peek(s) # "'" /\ peek(s) # "\"" THEN putback(AfterGet(s), peek(s))
    ELSE ReadString(AfterGet(s), peek(s), "")

RECURSIVE RemovingSpacesBeforeTokens(_)
RemovingSpacesBeforeTokens(s) ==
    IF peek(s) = " " THEN RemovingSpacesBeforeTokens(AfterGet(s))
    ELSE AfterPeek(s)

\* s the lexer after getline
Comments(s) ==
    IF s.tokens # <<>> /\ ~BackIs(s, {"Newline", "Dedent"})
    THEN emplace_back(s, Tok("Newline"))
    ELSE s

ExtractComments(s) ==
    IF peek(s) # "#" THEN AfterPeek(s)
    ELSE Comments(getline(s))

\* an ExtractNewLine that emits a Newline for every line feed
NewLine_Mutant(s) == emplace_back(s, Tok("Newline"))

\* s the lexer after the '\n' was extracted
NewLine(s) ==
    IF s.tokens # <<>> /\ ~BackIs(s, {"Newline"})
    THEN emplace_back(s, Tok("Newline"))
    ELSE s

ExtractNewLine(s) ==
    IF IsEof(s) THEN AfterPeek(s)
    ELSE IF peek(s) # "\n" THEN s
    ELSE NewLine(AfterGet(s))

\* Lexer::num_space_dent_
num_space_dent == 2

\* while (delta_dent > 0) and while (delta_dent < 0) of ExtractDent
RECURSIVE Dent(_, _)

\* an ExtractDent that emits the tokens and leaves current_dent_ as it was
Dent_Mutant(s, delta_dent) ==
    IF delta_dent > 0 THEN Dent(emplace_back(s, Tok("Indent")), delta_dent - 1)
    ELSE IF delta_dent < 0 THEN Dent(emplace_back(s, Tok("Dedent")), delta_dent + 1)
    ELSE s

Dent(s, delta_dent) ==
    IF delta_dent > 0
    THEN Dent([emplace_back(s, Tok("Indent")) EXCEPT !.current_dent = @ + 1], delta_dent - 1)
    ELSE IF delta_dent < 0
    THEN IF s.current_dent = 0 THEN LexerError(emplace_back(s, Tok("Dedent")), "assert")
         ELSE Dent([emplace_back(s, Tok("Dedent")) EXCEPT !.current_dent = @ - 1],
                   delta_dent + 1)
    ELSE s

\* the range of uint16_t, of count_space
UINT16 == 65536

\* while (peek() == ' ') of ExtractDent, then the indents and dedents
RECURSIVE CountSpace(_, _)

\* an ExtractDent that takes the new level itself for the difference of levels
CountSpace_Mutant(s, count_space) ==
    IF peek(s) = " " THEN CountSpace(AfterGet(s), (count_space + 1) % UINT16)
    ELSE IF count_space % num_space_dent # 0
    THEN LexerError(AfterPeek(s), "odd")
    ELSE Dent(AfterPeek(s), count_space \div num_space_dent)

CountSpace(s, count_space) ==
    IF peek(s) = " " THEN CountSpace(AfterGet(s), (count_space + 1) % UINT16)
    ELSE IF count_space % num_space_dent # 0
    THEN LexerError(AfterPeek(s),
                    "One of the indents contains an odd number of spaces. Num space = "
                        \o NatToString(count_space))
    ELSE Dent(AfterPeek(s), (count_space \div num_space_dent) - s.current_dent)

ExtractDent(s) ==
    IF s.tokens # <<>> /\ ~BackIs(s, {"Newline"}) THEN s
    ELSE IF peek(s) = "\n" THEN s
    ELSE CountSpace(AfterPeek(s), 0)

\* one pass through the body of while (input_tokens_) in ParseTokens
RECURSIVE Pass(_, _)
Pass(s, i) ==
    IF s.err # "" THEN s
    ELSE CASE i = 1 -> Pass(ExtractKeywordOrId(s), 2)
           [] i = 2 -> Pass(ExtractOperatorEqOrSymbol(s), 3)
           [] i = 3 -> Pass(ExtractIntValue(s), 4)
           [] i = 4 -> Pass(ExtractString(s), 5)
           [] i = 5 -> Pass(RemovingSpacesBeforeTokens(s), 6)
           [] i = 6 -> Pass(ExtractComments(s), 7)
           [] i = 7 -> Pass(ExtractNewLine(s), 8)
           [] i = 8 -> ExtractDent(s)

\* a ParseTokens that closes the tokens with the Eof alone
Finish_Mutant(s) == emplace_back(s, Tok("Eof"))

\* ParseTokens after the loop
Finish(s) ==
    IF s.tokens # <<>> /\ ~BackIs(s, {"Newline", "Dedent"})
    THEN emplace_back(emplace_back(s, Tok("Newline")), Tok("Eof"))
    ELSE emplace_back(s, Tok("Eof"))

-----------------------------------------------------------------------------
(* The lexer as a state machine: Lexer::Lexer calls ParseTokens, which     *)
(* takes one step for the spaces it removes first, one per pass through    *)
(* its loop and one for what it does after the loop.                       *)

\* the characters of the source texts: the letters of a keyword, a digit, the
\* space, the line feed, the comment sign, an operator, a quote, the tab and
\* the carriage return
Alphabet == {"i", "f", "1", " ", "\n", "#", "=", "'", "\t", "\r"}

\* the length of the longest source text
MaxLen == 5

Inputs == UNION {[1..n -> Alphabet] : n \in 0..MaxLen}

\* source texts made of lines: leading spaces, then an identifier, a comment
\* sign or nothing, then the line feed, which the last line may lack
Indents == {0, 2, 4}
Bodies == {<<>>, <<"i">>, <<"#">>}
Spaces(k) == [j \in 1..k |-> " "]
LineSet == {Spaces(k) \o body \o <<"\n">> : k \in Indents, body \in Bodies}

\* the number of lines of the longest of these texts
MaxLines == 4

RECURSIVE Texts(_)
Texts(n) ==
    IF n = 0 THEN {<<>>}
    ELSE Texts(n - 1) \cup {t \o line : t \in Texts(n - 1), line \in LineSet}

IndentedInputs ==
    Texts(MaxLines) \cup {SubSeq(t, 1, Len(t) - 1) : t \in Texts(MaxLines) \ {<<>>}}

\* the cursor interface was not called
NoToken == [type |-> "none"]
NoCall == [op |-> "none", before |-> 0, returned |-> NoToken, thrown |-> FALSE]

\* no Lexer was constructed
LexIdle ==
    /\ input = <<>>
    /\ lx = NewLexer(<<>>)
    /\ phase = "idle"
    /\ call = NoCall

\* Lexer::Lexer(input) is entered
InitLexer ==
    /\ input \in Inputs \cup IndentedInputs
    /\ lx = NewLexer(input)
    /\ phase = "start"
    /\ call = NoCall

\* RemovingSpacesBeforeTokens() before the loop
ParseTokens_Begin ==
    /\ phase = "start"
    /\ lx' = RemovingSpacesBeforeTokens(lx)
    /\ phase' = "loop"
    /\ UNCHANGED <<input, call, evalVars>>

\* s the lexer after the pass: an exception leaves ParseTokens and the
\* constructor
ParseTokens_Passed(s) ==
    /\ lx' = s
    /\ phase' = IF s.err # "" THEN "error" ELSE "loop"

\* while (input_tokens_) holds: one pass through the loop body
ParseTokens_Pass ==
    /\ phase = "loop"
    /\ ~lx.failbit
    /\ ParseTokens_Passed(Pass(lx, 1))
    /\ UNCHANGED <<input, call, evalVars>>

\* while (input_tokens_) fails: the closing Newline and Eof
ParseTokens_Finish ==
    /\ phase = "loop"
    /\ lx.failbit
    /\ lx' = Finish(lx)
    /\ phase' = "done"
    /\ UNCHANGED <<input, call, evalVars>>

NextLexer ==
    \/ ParseTokens_Begin
    \/ ParseTokens_Pass
    \/ ParseTokens_Finish

-----------------------------------------------------------------------------
(* The cursor of a constructed Lexer: CurrentToken, NextToken and the      *)
(* Expect templates, called in any order by the parser.                    *)

\* ParseTokens as a whole: the spaces removed first, the loop, the closing
\* tokens; an exception leaves it with err set
RECURSIVE ParseTokens_Loop(_)
ParseTokens_Loop(s) ==
    IF s.err # "" THEN s
    ELSE IF s.failbit THEN Finish(s)
    ELSE ParseTokens_Loop(Pass(s, 1))

ParseTokens(s) == ParseTokens_Loop(RemovingSpacesBeforeTokens(s))

\* Lexer::Lexer(input)
Lexer(text) == ParseTokens(NewLexer(text))

\* the number of lines of the longest text given to the cursor
CursorLines == 2

CursorInputs ==
    Texts(CursorLines)
        \cup {SubSeq(t, 1, Len(t) - 1) : t \in Texts(CursorLines) \ {<<>>}}

\* tokens_[index_current_token_]; the index counts from 0
CurrentToken(s) == s.tokens[s.index_current_token + 1]

\* a NextToken that returns the next token and leaves the cursor where it is
NextToken_Mutant(s) == s

NextToken(s) ==
    IF s.index_current_token + 1 # Len(s.tokens)
    THEN [s EXCEPT !.index_current_token = @ + 1]
    ELSE s

\* Expect<T>(): the current token, or LexerError when it is no T
Expect(s, T) ==
    IF CurrentToken(s).type = T
    THEN [op |-> "Expect", before |-> s.index_current_token,
          returned |-> CurrentToken(s), thrown |-> FALSE]
    ELSE [op |-> "Expect", before |-> s.index_current_token,
          returned |-> NoToken, thrown |-> TRUE]

\* Expect<T, U>(value): nothing is returned
ExpectValue(s, T, value) ==
    IF Expect(s, T).thrown THEN Expect(s, T)
    ELSE [op |-> "Expect", before |-> s.index_current_token,
          returned |-> NoToken, thrown |-> CurrentToken(s).value # value]

\* the token types the parser asks for, and the values
ExpectedTypes == {"Id", "Newline", "Indent", "Dedent", "Eof", "String"}
ExpectedValuedTypes == {"Id"}
ExpectedValues == {"i", "f"}

\* a Lexer was constructed over one of the texts
InitCursor ==
    /\ input \in CursorInputs
    /\ lx = Lexer(input)
    /\ lx.err = ""
    /\ phase = "done"
    /\ call = NoCall

Constructed == phase = "done"

Call_CurrentToken ==
    /\ Constructed
    /\ call' = [op |-> "CurrentToken", before |-> lx.index_current_token,
                returned |-> CurrentToken(lx), thrown |-> FALSE]
    /\ UNCHANGED <<input, lx, phase, evalVars>>

Call_NextToken ==
    /\ Constructed
    /\ lx' = NextToken(lx)
    /\ call' = [op |-> "NextToken", before |-> lx.index_current_token,
                returned |-> CurrentToken(lx'), thrown |-> FALSE]
    /\ UNCHANGED <<input, phase, evalVars>>

Call_Expect ==
    \E T \in ExpectedTypes :
        /\ Constructed
        /\ call' = Expect(lx, T)
        /\ UNCHANGED <<input, lx, phase, evalVars>>

Call_ExpectValue ==
    \E T \in ExpectedValuedTypes, value \in ExpectedValues :
        /\ Constructed
        /\ call' = ExpectValue(lx, T, value)
        /\ UNCHANGED <<input, lx, phase, evalVars>>

\* an ExpectNext that puts the cursor back when the check raises
Call_ExpectNext_Mutant ==
    \E T \in ExpectedTypes :
        /\ Constructed
        /\ lx' = IF Expect(NextToken(lx), T).thrown THEN lx ELSE NextToken(lx)
        /\ call' = [Expect(NextToken(lx), T) EXCEPT !.op = "ExpectNext",
                                                    !.before = lx.index_current_token]
        /\ UNCHANGED <<input, phase, evalVars>>

\* ExpectNext<T>(): NextToken(); Expect<T>()
Call_ExpectNext ==
    \E T \in ExpectedTypes :
        /\ Constructed
        /\ lx' = NextToken(lx)
        /\ call' = [Expect(lx', T) EXCEPT !.op = "ExpectNext",
                                          !.before = lx.index_current_token]
        /\ UNCHANGED <<input, phase, evalVars>>

\* ExpectNext<T, U>(value): NextToken(); Expect<T>(value)
Call_ExpectNextValue ==
    \E T \in ExpectedValuedTypes, value \in ExpectedValues :
        /\ Constructed
        /\ lx' = NextToken(lx)
        /\ call' = [ExpectValue(lx', T, value) EXCEPT !.op = "ExpectNext",
                                          !.before = lx.index_current_token]
        /\ UNCHANGED <<input, phase, evalVars>>

NextCursor ==
    \/ Call_CurrentToken
    \/ Call_NextToken
    \/ Call_Expect
    \/ Call_ExpectValue
    \/ Call_ExpectNext
    \/ Call_ExpectNextValue

-----------------------------------------------------------------------------
(* The specifications: Spec runs the evaluator, SpecRuntime calls the      *)
(* runtime, SpecNodes executes single nodes, SpecLexer constructs a Lexer, *)
(* SpecCursor moves its cursor.                                            *)

Init == InitEval /\ LexIdle

Next == NextEval

Spec == Init /\ [][Next]_vars

SpecRuntime == Init /\ [][NextRuntime]_vars

InitOfNodes == InitNodes /\ LexIdle

SpecNodes == InitOfNodes /\ [][NextNodes]_vars

InitOfLexer == InitEval /\ InitLexer

SpecLexer == InitOfLexer /\ [][NextLexer]_vars

InitOfCursor == InitEval /\ InitCursor

SpecCursor == InitOfCursor /\ [][NextCursor]_vars

-----------------------------------------------------------------------------
(* Claims about the evaluator, checked under Spec.  last holds the node    *)
(* the embedder executed last, the state it was executed in and its        *)
(* outcome; closure, heap and out are the state it left.                   *)

\* C1: executing FieldAssignment(object, field, rhs) leaves the closure it is
\* executed against with the same keys and bindings as before (the right-hand
\* sides of FieldAssignmentNodes bind nothing in the closure themselves); no
\* binding named `field` is created or overwritten in it.
C1_FieldAssignmentKeepsClosure ==
    last.node.k = "FieldAssignment" => closure = last.closure

\* the field table a NewInstance execution hands to __init__ (the arguments of
\* the NewInstance nodes run here are plain names, which change no field), or
\* returns when no __init__ runs
FieldsOfNewInstance(n) ==
    IF HasMethod(n.class_instance, "__init__", Len(n.args))
    THEN last.heap[n.class_instance]
    ELSE heap[n.class_instance]

\* C2: every execution of a NewInstance node, the second and later ones
\* included, yields an instance whose field table is empty when __init__ starts
\* (or at return when no __init__ runs).
C2_NewInstanceIsFresh ==
    (last.node.k = "Assignment" /\ last.node.r_value.k = "NewInstance")
        => FieldsOfNewInstance(last.node.r_value) = EmptyClosure

\* How a dotted name resolves by the rule of the specification: the first
\* segment in the closure c, each later segment in the field table of the
\* instance the segment before it resolved to.  "unbound": the segment has no
\* binding there; "notinstance": a segment other than the last is bound to a
\* value that is not a ClassInstance; "value": the name resolves.
RECURSIVE Resolution(_, _, _, _)
Resolution(ids, i, c, h) ==
    IF ids[i] \notin DOMAIN c THEN "unbound"
    ELSE IF i = Len(ids) THEN "value"
    ELSE IF c[ids[i]].t # "Instance" THEN "notinstance"
    ELSE Resolution(ids, i + 1, h[c[ids[i]].id], h)

LastResolution == Resolution(last.node.dotted_ids, 1, last.closure, last.heap)

\* C3: a VariableValue with two or more segments, one of which other than the
\* last resolves to a value that is not a ClassInstance, raises a runtime error
\* and returns no holder.
C3_NonInstanceSegmentRaises ==
    (/\ last.node.k = "VariableValue"
     /\ Len(last.node.dotted_ids) >= 2
     /\ LastResolution = "notinstance")
        => last.res.kind = "error"

\* C4: a VariableValue raises a runtime error whenever a segment of the dotted
\* name is unbound where it must be looked up.
C4_UnboundSegmentRaises ==
    (last.node.k = "VariableValue" /\ LastResolution = "unbound")
        => last.res.kind = "error"

\* the embedder's last statement called method m of the instance bound to k
\* with arguments that are names bound in the closure
LastCalls(m) ==
    /\ last.node.k = "MethodCall"
    /\ last.node.method = m
    /\ last.node.object = V("k")
    /\ \A i \in DOMAIN last.node.args : last.node.args[i].dotted_ids[1] \in DOMAIN last.closure

LastArg(i) == last.closure[last.node.args[i].dotted_ids[1]]
LastArgs == [i \in DOMAIN last.node.args |-> LastArg(i)]
LastTarget == last.closure["k"].id

\* what print writes for a value that is not an instance
TextOf(v) == Object_Print(v, "", last.heap, last.out).os

\* C5: a Return inside nested Compound and IfElse nodes under a MethodBody ends
\* that method with the value of its expression and runs no statement after it
\* (inner(True, v) returns v, prints nothing and assigns no field), and the
\* MethodBody of the caller is not ended by it: outer(True, v) goes on to store
\* the result in self.r, print it and return it.
C5_ReturnUnwindsToInnermostMethodBody ==
    /\ (LastCalls("inner") /\ LastArg(1) = BoolV(TRUE))
          => /\ last.res = [kind |-> "ok", val |-> LastArg(2), err |-> ""]
             /\ out = last.out
             /\ heap = last.heap
             /\ closure = last.closure
    /\ (LastCalls("outer") /\ LastArg(1) = BoolV(TRUE))
          => /\ last.res = [kind |-> "ok", val |-> LastArg(2), err |-> ""]
             /\ out = last.out \o TextOf(LastArg(2)) \o "\n"
             /\ heap = [last.heap EXCEPT ![LastTarget] = Bind(@, "r", LastArg(2))]
             /\ closure = last.closure

C5_Witness ==
    /\ LastCalls("outer")
    /\ LastArg(1) = BoolV(TRUE)
    /\ last.res.kind = "ok"
    /\ "r" \in DOMAIN heap[LastTarget]
    /\ out # last.out

\* C6: a return signal never escapes the execution of the root statement to
\* the embedder: what the embedder gets is never the raw signal.
C6_ReturnNeverEscapesRoot == last.res.kind # "return"

\* the body of the method the last statement called, run in the frame
\* ClassInstance::Call builds, without the MethodBody around it
LastBodyAlone ==
    Execute(GetMethod(InstClass[LastTarget], last.node.method).body.body,
            Frame(LastTarget, GetMethod(InstClass[LastTarget], last.node.method).formal_params,
                  LastArgs),
            last.heap, last.out)

LastBodyRaises ==
    /\ LastCalls(last.node.method)
    /\ HasMethod(LastTarget, last.node.method, Len(last.node.args))
    /\ LastBodyAlone.kind = "error"

\* C7: a runtime error raised inside a method body (missing binding, type
\* mismatch, division by zero, missing method) leaves MethodBody::Execute and
\* ClassInstance::Call as the same error, with the effects the body had until
\* then; no value is returned.
C7_ErrorsPassMethodBody ==
    LastBodyRaises
        => /\ last.res = [kind |-> "error", val |-> NoneV, err |-> LastBodyAlone.err]
           /\ heap = LastBodyAlone.heap
           /\ out = LastBodyAlone.out

C7_Witness ==
    /\ LastBodyRaises
    /\ last.node.method = "div"
    /\ LastArg(2) = Num(0)
    /\ last.res.kind = "error"

\* C8: executing Stringify(arg) leaves the output sink as it was, whatever the
\* argument is and whatever the __str__ of an instance executes.
C8_StringifyKeepsOutput ==
    last.node.k = "Stringify" => out = last.out

-----------------------------------------------------------------------------
(* Claims about the lexer, checked under SpecLexer.                        *)

\* C9: the scan loop of the lexer terminates for every input, a tab, a
\* carriage return or another control character outside a string literal
\* included: while input remains, no pass through the loop leaves the lexer as
\* it found it, with no character consumed, no token emitted and no error.
C9_EveryPassAdvances ==
    (phase = "loop" /\ ~lx.failbit /\ lx.rest # <<>>)
        => \/ Pass(lx, 1).rest # lx.rest
           \/ Pass(lx, 1).tokens # lx.tokens
           \/ Pass(lx, 1).err # ""

TokensOfType(type) == {i \in DOMAIN lx.tokens : lx.tokens[i].type = type}

\* C10: when lexing completes without error the token sequence has exactly one
\* Eof, which is its last token, and the sequence is [Eof] or the token before
\* the Eof is a Newline or a Dedent.
C10_EofAfterNewlineOrDedent ==
    phase = "done"
        => /\ TokensOfType("Eof") = {Len(lx.tokens)}
           /\ \/ Len(lx.tokens) = 1
              \/ lx.tokens[Len(lx.tokens) - 1].type \in {"Newline", "Dedent"}

\* a source text without line feed and comment was lexed into tokens: the
\* Newline before the Eof is the one ParseTokens adds after its loop
C10_Witness ==
    /\ phase = "done"
    /\ Len(lx.tokens) > 2
    /\ \A i \in DOMAIN input : input[i] \notin {"\n", "#"}
    /\ lx.tokens[Len(lx.tokens) - 1].type = "Newline"


\* Indent tokens minus Dedent tokens among the first n tokens
Balance(n) ==
    Cardinality({i \in 1..n : lx.tokens[i].type = "Indent"})
        - Cardinality({i \in 1..n : lx.tokens[i].type = "Dedent"})

\* C11: at every point of lexing the number of Indent tokens emitted minus the
\* number of Dedent tokens emitted is not negative, over every prefix of the
\* tokens, and equals current_dent_; no Dedent is emitted at level 0.
C11_BalanceIsCurrentDent ==
    /\ \A n \in 0..Len(lx.tokens) : Balance(n) >= 0
    /\ Balance(Len(lx.tokens)) = lx.current_dent
    /\ lx.err # "assert"

\* an Indent was emitted and then a Dedent took the level back to 0
C11_Witness ==
    /\ TokensOfType("Indent") # {}
    /\ TokensOfType("Dedent") # {}
    /\ lx.current_dent = 0
    /\ \E n \in 1..Len(lx.tokens) : Balance(n) = 2

\* C12: when lexing completes without error the token stream has as many
\* Dedent tokens as Indent tokens, also when the last line is indented and has
\* no line feed, or when the input ends inside an indented block.
C12_DedentsMatchIndents ==
    phase = "done"
        => Cardinality(TokensOfType("Dedent")) = Cardinality(TokensOfType("Indent"))

\* the positions at which the physical lines of a text begin
LineStarts(text) ==
    {p \in DOMAIN text : p = 1 \/ text[p - 1] = "\n"}

\* the number of spaces of the text from position p on
RECURSIVE LeadingSpaces(_, _)
LeadingSpaces(text, p) ==
    IF p <= Len(text) /\ text[p] = " " THEN 1 + LeadingSpaces(text, p + 1) ELSE 0

\* the first character after the leading spaces of the line that begins at p,
\* the line feed when there is none
AfterSpaces(text, p) ==
    IF p + LeadingSpaces(text, p) > Len(text) THEN "\n"
    ELSE text[p + LeadingSpaces(text, p)]

\* "blank": the line is a line feed alone; "spaces": spaces alone; "comment":
\* a comment alone; "content": the line holds a token
LineKind(text, p) ==
    IF AfterSpaces(text, p) = "\n"
    THEN IF LeadingSpaces(text, p) = 0 THEN "blank" ELSE "spaces"
    ELSE IF AfterSpaces(text, p) = "#" THEN "comment" ELSE "content"

\* C13: a logical line that begins with an odd number of spaces raises
\* LexerError, the first line of the stream as well as a line after a Newline:
\* lexing never completes on a text with such a line.
C13_OddIndentRaises ==
    phase = "done"
        => \A p \in LineStarts(input) :
               LineKind(input, p) = "content" => LeadingSpaces(input, p) % 2 = 0

\* the lexer of a pass when ExtractNewLine has returned and ExtractDent is about
\* to be called, from statement i of the loop body on
RECURSIVE BeforeExtractDent(_, _)
BeforeExtractDent(s, i) ==
    IF s.err # "" THEN s
    ELSE CASE i = 1 -> BeforeExtractDent(ExtractKeywordOrId(s), 2)
           [] i = 2 -> BeforeExtractDent(ExtractOperatorEqOrSymbol(s), 3)
           [] i = 3 -> BeforeExtractDent(ExtractIntValue(s), 4)
           [] i = 4 -> BeforeExtractDent(ExtractString(s), 5)
           [] i = 5 -> BeforeExtractDent(RemovingSpacesBeforeTokens(s), 6)
           [] i = 6 -> BeforeExtractDent(ExtractComments(s), 7)
           [] i = 7 -> ExtractNewLine(s)

Repeated(tok, n) == [j \in 1..n |-> tok]

\* the Indent or Dedent tokens that take the level from level to n
DentTokens(level, n) ==
    IF n > level THEN Repeated(Tok("Indent"), n - level)
    ELSE Repeated(Tok("Dedent"), level - n)

\* a Newline is the last token and the line that follows is not a line feed
\* alone: what is required of ExtractDent, b the lexer before it
DentAsSpecified(b) ==
    (/\ b.err = ""
     /\ BackIs(b, {"Newline"})
     /\ peek(b) # "\n"
     /\ LeadingSpaces(b.rest, 1) % 2 = 0)
        => /\ ExtractDent(b).err = ""
           /\ ExtractDent(b).tokens
                = b.tokens \o DentTokens(b.current_dent, LeadingSpaces(b.rest, 1) \div 2)
           /\ ExtractDent(b).current_dent = LeadingSpaces(b.rest, 1) \div 2
           /\ ExtractDent(b).rest
                = SubSeq(b.rest, LeadingSpaces(b.rest, 1) + 1, Len(b.rest))

\* the text "  i\n    i\n" and its tokens
TwoLevels == <<" ", " ", "i", "\n", " ", " ", " ", " ", "i", "\n">>
TwoLevelsTokens ==
    << Valued("Id", "i"), Tok("Newline"), Tok("Indent"), Tok("Indent"),
       Valued("Id", "i"), Tok("Newline"), Tok("Dedent"), Tok("Dedent"), Tok("Eof") >>

\* C14: after a Newline, unless the next line is a line feed alone, the lexer
\* counts the 2n leading spaces of the line, emits n - level Indent tokens or
\* level - n Dedent tokens before any other token of the line and sets the
\* level to n; the spaces at the very beginning of the stream are skipped with
\* no Indent and leave the level 0; "  i\n    i\n" yields Id Newline Indent
\* Indent Id Newline Dedent Dedent Eof.
C14_DentFollowsLeadingSpaces ==
    /\ (phase = "loop" /\ ~lx.failbit) => DentAsSpecified(BeforeExtractDent(lx, 1))
    /\ phase = "start"
          => /\ RemovingSpacesBeforeTokens(lx).tokens = <<>>
             /\ RemovingSpacesBeforeTokens(lx).current_dent = 0
             /\ peek(RemovingSpacesBeforeTokens(lx)) # " "
    /\ (input = TwoLevels /\ phase \in {"done", "error"})
          => (phase = "done" /\ lx.tokens = TwoLevelsTokens)

C14_Witness ==
    /\ input = TwoLevels
    /\ phase = "done"
    /\ lx.tokens = TwoLevelsTokens

LinesOfKind(text, kinds) == {p \in LineStarts(text) : LineKind(text, p) \in kinds}

\* the Newline tokens that follow a token other than an Indent or a Dedent
NewlinesAfterToken ==
    {i \in TokensOfType("Newline") : i > 1 /\ lx.tokens[i - 1].type \notin {"Indent", "Dedent"}}

OneLineThenRun(text) ==
    /\ Cardinality(LinesOfKind(text, {"content"})) = 1
    /\ LinesOfKind(text, {"spaces"}) = {}
    /\ \A p \in LinesOfKind(text, {"comment"}) :
           \A q \in LinesOfKind(text, {"content"}) : q < p

Quotes == {"'", "\""}

\* the text has one quote character, which no comment sign precedes: it opens
\* a string literal that is not closed
UnclosedLiteral(text) ==
    \E q \in DOMAIN text :
        /\ text[q] \in Quotes
        /\ \A j \in DOMAIN text : j # q => text[j] \notin Quotes
        /\ \A j \in 1..(q - 1) : text[j] # "#"

\* C16: when the input ends after an opening quote and before the closing
\* quote the lexer raises LexerError: lexing does not complete and no String
\* token is emitted for the literal.
C16_UnclosedLiteralRaises ==
    UnclosedLiteral(input) => (phase # "done" /\ TokensOfType("String") = {})

-----------------------------------------------------------------------------
(* Claims about the cursor of a constructed Lexer, checked under           *)
(* SpecCursor.                                                             *)

LastIndex == Len(lx.tokens) - 1

\* C17: after any calls of CurrentToken, NextToken, Expect and ExpectNext on
\* a constructed Lexer the cursor indexes an existing token; a call that
\* takes the next token moves the cursor forward by one and gives the new
\* current token while the current token was not the last, and at the Eof it
\* gives the Eof and leaves the Eof current.
C17_CursorStaysOnTokens ==
    Constructed =>
        /\ lx.index_current_token \in 0..LastIndex
        /\ lx.tokens[Len(lx.tokens)].type = "Eof"
        /\ call.op = "NextToken" =>
            /\ call.returned = CurrentToken(lx)
            /\ call.before # LastIndex =>
                   lx.index_current_token = call.before + 1
            /\ lx.tokens[call.before + 1].type = "Eof" =>
                   /\ call.returned = Tok("Eof")
                   /\ CurrentToken(lx) = Tok("Eof")
                   /\ lx.index_current_token = call.before
        /\ call.op = "ExpectNext" =>
               lx.index_current_token
                   = IF call.before # LastIndex THEN call.before + 1 ELSE call.before
        /\ call.op \in {"CurrentToken", "Expect"} =>
               lx.index_current_token = call.before

\* NextToken moved the cursor to a token that is not the Eof, and a later
\* NextToken found the Eof current and stayed
C17_Witness ==
    /\ Constructed
    /\ Len(lx.tokens) > 3
    /\ call.op = "NextToken"
    /\ call.before = LastIndex
    /\ call.returned = Tok("Eof")

\* C30: Expect<T>() and Expect<T>(value) leave the cursor where it is,
\* whether they return or raise LexerError; ExpectNext<T>() and
\* ExpectNext<T>(value) move the cursor forward by one token, or not at all
\* when the current token is the Eof, before they check, and the cursor stays
\* there also when the check raises.
C30_ExpectKeepsCursor ==
    [][ /\ call'.op = "Expect" => lx' = lx
        /\ call'.op = "ExpectNext" =>
            /\ lx'.tokens = lx.tokens
            /\ lx'.index_current_token =
                   IF CurrentToken(lx).type = "Eof" THEN lx.index_current_token
                   ELSE lx.index_current_token + 1
            /\ call'.returned # NoToken => call'.returned = CurrentToken(lx')
      ]_vars

\* an ExpectNext raised on the token it moved the cursor to, and the cursor
\* is on that token
C30_Witness ==
    /\ Constructed
    /\ call.op = "ExpectNext"
    /\ call.thrown
    /\ lx.index_current_token = call.before + 1

-----------------------------------------------------------------------------
(* Claims about the runtime, checked under SpecRuntime.  last holds the    *)
(* call the embedder made last, the state it was made in and its result.   *)

\* the class and its ancestors, nearest first
RECURSIVE ChainOf(_)
ChainOf(cls) ==
    IF ClassTable[cls].parent = NoParent THEN <<cls>>
    ELSE <<cls>> \o ChainOf(ClassTable[cls].parent)

Defines(cls, name) ==
    \E i \in DOMAIN ClassTable[cls].methods : ClassTable[cls].methods[i].name = name

Definers(cls, name) == {i \in DOMAIN ChainOf(cls) : Defines(ChainOf(cls)[i], name)}

\* the nearest class of the chain of cls that defines name
Nearest(cls, name) ==
    ChainOf(cls)[CHOOSE i \in Definers(cls, name) : \A j \in Definers(cls, name) : i <= j]

MethodsOf(cls) == {ClassTable[cls].methods[i] : i \in DOMAIN ClassTable[cls].methods}

\* C18: GetMethod(name) of a class gives the method of that name of the
\* nearest class of its chain of ancestors (the class itself first) that
\* defines the name, and null exactly when no class of the chain defines it.
C18_GetMethodFindsNearest ==
    last.node.k = "GetMethod" =>
        IF Definers(last.node.class, last.node.name) = {}
        THEN last.res.val = NullMethod
        ELSE /\ last.res.val # NullMethod
             /\ last.res.val.name = last.node.name
             /\ last.res.val \in MethodsOf(Nearest(last.node.class, last.node.name))

\* a name asked of the last class of a chain of three, defined by its parent
\* and by its parent's parent
C18_Witness ==
    /\ last.node.k = "GetMethod"
    /\ Len(ChainOf(last.node.class)) = 3
    /\ Definers(last.node.class, last.node.name) = {2, 3}
    /\ last.res.val \in MethodsOf(ChainOf(last.node.class)[2])
    /\ last.res.val \notin MethodsOf(ChainOf(last.node.class)[3])

Range(seq) == {seq[i] : i \in DOMAIN seq}

LastCallMethod == GetMethod(InstClass[last.node.id], last.node.method)

\* the method is missing or its number of formal parameters is not |args|
LastCallRejected ==
    \/ LastCallMethod = NullMethod
    \/ Len(LastCallMethod.formal_params) # Len(last.node.actual_args)

\* the index of the last formal parameter named x
LastFormal(formal_params, x) ==
    CHOOSE i \in DOMAIN formal_params :
        /\ formal_params[i] = x
        /\ \A j \in DOMAIN formal_params : formal_params[j] = x => j <= i

\* self bound to the instance, then every formal parameter to its argument in
\* the order of the parameters: of two bindings of a name the later stays
BoundInOrder(id, formal_params, actual_args) ==
    [x \in {"self"} \cup Range(formal_params) |->
        IF x \in Range(formal_params)
        THEN actual_args[LastFormal(formal_params, x)]
        ELSE Inst(id)]

\* the frames in which self is the instance and the i-th formal parameter is
\* the i-th argument, for every i
BoundEach(id, formal_params, actual_args) ==
    {fr \in [{"self"} \cup Range(formal_params) -> {Inst(id)} \cup Range(actual_args)] :
        /\ fr["self"] = Inst(id)
        /\ \A i \in DOMAIN formal_params : fr[formal_params[i]] = actual_args[i]}

\* the call left what e, an execution of the body, left
LastCallIs(e) ==
    /\ last.res = CallOutcome(e)
    /\ heap = e.heap
    /\ out = e.out

LastCallRaised ==
    /\ last.res.kind = "error"
    /\ heap = last.heap
    /\ out = last.out

\* C19, with the bindings in the order of the code: Call(name, args) raises a runtime error and executes no
\* body when the method is missing or its number of formal parameters is not
\* |args|; otherwise it executes the body against a fresh frame whose keys
\* are self and the formal parameter names, self bound to the instance first
\* and the formals then bound to their arguments in order, a later binding of
\* a name replacing an earlier one; the closure of the caller is not read and
\* not changed.
C19_CallBindsSelfThenFormals ==
    last.node.k = "Call" =>
        /\ closure = last.closure
        /\ IF LastCallRejected THEN LastCallRaised
           ELSE LastCallIs(Execute(LastCallMethod.body,
                                   BoundInOrder(last.node.id, LastCallMethod.formal_params,
                                                last.node.actual_args),
                                   last.heap, last.out))

\* a call that bound self and one formal parameter; its body bound a name of
\* the caller's closure in the frame
C19_Witness ==
    /\ last.node.k = "Call"
    /\ last.node.method = "loc"
    /\ last.res.kind = "ok"
    /\ last.res.val = Str("a")
    /\ DOMAIN last.res.frame = {"self", "a", "one"}
    /\ closure["one"] = Num(1)

\* C19: Call(name, args) raises a runtime error without executing a body when
\* the method is missing or its number of formal parameters is not |args|;
\* otherwise it executes the body against a fresh frame whose keys are
\* exactly self and the formal parameter names, with self the receiving
\* instance and the i-th formal bound to the i-th argument; the caller's
\* closure is not visible in the frame and not changed.
C19_CallBindsEachFormal ==
    last.node.k = "Call" =>
        /\ closure = last.closure
        /\ IF LastCallRejected THEN LastCallRaised
           ELSE \E fr \in BoundEach(last.node.id, LastCallMethod.formal_params,
                                    last.node.actual_args) :
                    LastCallIs(Execute(LastCallMethod.body, fr, last.heap, last.out))

BothAre(type) == last.node.lhs.t = type /\ last.node.rhs.t = type

\* the lhs is an instance whose class resolves __eq__ with one parameter
LhsHasEq ==
    /\ last.node.lhs.t = "Instance"
    /\ GetMethod(InstClass[last.node.lhs.id], "__eq__") # NullMethod
    /\ Len(GetMethod(InstClass[last.node.lhs.id], "__eq__").formal_params) = 1

LastEqualReturned(b) == last.res.kind = "ok" /\ last.res.val = BoolV(b)

\* Equal gave what r, an invocation of lhs.__eq__(rhs), returned, coerced to
\* a boolean; what the invocation raises is raised
LastEqualCoerced(r) ==
    IF r.kind = "ok"
    THEN LastEqualReturned(IsTrue(r.val)) /\ heap = r.heap /\ out = r.out
    ELSE last.res.kind = r.kind

\* C20: Equal(a, b) is true when both holders are empty and the equality of
\* the values when both are Bool, both Number or both String; otherwise, when
\* a is an instance whose class resolves __eq__ with one parameter, it is the
\* result of a.__eq__(b) coerced to a boolean, whatever value that is (a
\* Number, a String or None too); in every other case a runtime error is
\* raised.
C20_EqualCoercesResult ==
    last.node.k = "Equal" =>
        IF BothAre("None") THEN LastEqualReturned(TRUE)
        ELSE IF BothAre("Bool") THEN LastEqualReturned(last.node.lhs.b = last.node.rhs.b)
        ELSE IF BothAre("Number") THEN LastEqualReturned(last.node.lhs.n = last.node.rhs.n)
        ELSE IF BothAre("String") THEN LastEqualReturned(last.node.lhs.s = last.node.rhs.s)
        ELSE IF LhsHasEq
             THEN LastEqualCoerced(
                      ClassInstance_Call(last.node.lhs.id, "__eq__", <<last.node.rhs>>,
                                         last.heap, last.out))
             ELSE last.res.kind = "error"

\* the part of C20 that does not depend on the type of what __eq__ returns
C20_EqualOfBoolResult ==
    last.node.k = "Equal" =>
        IF BothAre("None") THEN LastEqualReturned(TRUE)
        ELSE IF BothAre("Bool") THEN LastEqualReturned(last.node.lhs.b = last.node.rhs.b)
        ELSE IF BothAre("Number") THEN LastEqualReturned(last.node.lhs.n = last.node.rhs.n)
        ELSE IF BothAre("String") THEN LastEqualReturned(last.node.lhs.s = last.node.rhs.s)
        ELSE IF LhsHasEq
             THEN (last.node.rhs.t = "Bool" /\ InstClass[last.node.lhs.id] \in {"Q", "Q2"})
                      => LastEqualReturned(last.node.rhs.b)
             ELSE last.res.kind = "error"

LastLess == Less(last.node.lhs, last.node.rhs, last.heap, last.out)
LastEqual == Equal(last.node.lhs, last.node.rhs, last.heap, last.out)

\* Equal as a comparator evaluates it once Less returned with outcome l
EqualAfter(l) == Equal(last.node.lhs, last.node.rhs, l.heap, l.out)

Normal(b, e) == [kind |-> "ok", b |-> b, heap |-> e.heap, out |-> e.out]
Failed(e) == [kind |-> e.kind, b |-> FALSE, heap |-> e.heap, out |-> e.out]

\* not Equal
NotOf(e) == IF e.kind = "ok" THEN Normal(~e.b, e) ELSE Failed(e)

\* (not Less) and (not Equal): Equal is not evaluated when Less holds
NeitherOf(l, e) ==
    IF l.kind # "ok" THEN Failed(l)
    ELSE IF l.b THEN Normal(FALSE, l)
    ELSE NotOf(e)

\* Less or Equal: Equal is not evaluated when Less holds
EitherOf(l, e) ==
    IF l.kind # "ok" THEN Failed(l)
    ELSE IF l.b THEN Normal(TRUE, l)
    ELSE IF e.kind = "ok" THEN Normal(e.b, e) ELSE Failed(e)

\* what the base predicates give for the comparator called last
DerivedFrom(cmp) ==
    CASE cmp = "NotEqual" -> NotOf(LastEqual)
      [] cmp = "Greater" -> NeitherOf(LastLess, EqualAfter(LastLess))
      [] cmp = "LessOrEqual" -> EitherOf(LastLess, EqualAfter(LastLess))
      [] cmp = "GreaterOrEqual" -> NotOf(LastLess)

\* the call returned what d says, or raised when d raises
LastComparatorIs(d) ==
    \/ d.kind = "ub"
    \/ /\ last.res.kind = d.kind
       /\ d.kind = "ok" => last.res.val = BoolV(d.b)
       /\ heap = d.heap
       /\ out = d.out

DerivedComparators == {"NotEqual", "Greater", "LessOrEqual", "GreaterOrEqual"}

\* C21: where Equal and Less return normally NotEqual is not Equal, Greater is
\* (not Less) and (not Equal), LessOrEqual is Less or Equal, GreaterOrEqual is
\* not Less, and so LessOrEqual is not Greater; a derived comparator raises a
\* runtime error exactly when a base predicate it evaluates raises.
C21_DerivedComparators ==
    (last.node.k = "Comparator" /\ last.node.cmp \in DerivedComparators) =>
        /\ LastComparatorIs(DerivedFrom(last.node.cmp))
        /\ (DerivedFrom("Greater").kind = "ok" /\ DerivedFrom("LessOrEqual").kind = "ok")
               => DerivedFrom("LessOrEqual").b = ~DerivedFrom("Greater").b
        /\ last.res.kind = "error" =>
               \/ last.node.cmp = "NotEqual" /\ LastEqual.kind = "error"
               \/ last.node.cmp # "NotEqual" /\ LastLess.kind = "error"
               \/ /\ last.node.cmp \in {"Greater", "LessOrEqual"}
                  /\ LastLess.kind = "ok" /\ ~LastLess.b
                  /\ EqualAfter(LastLess).kind = "error"

\* Greater of an instance whose __lt__ and __eq__ both returned false
C21_Witness ==
    /\ last.node.k = "Comparator"
    /\ last.node.cmp = "Greater"
    /\ last.node.lhs.t = "Instance"
    /\ LastLess.kind = "ok" /\ ~LastLess.b
    /\ EqualAfter(LastLess).kind = "ok" /\ ~EqualAfter(LastLess).b
    /\ last.res = [kind |-> "ok", val |-> BoolV(TRUE), err |-> ""]

PrimitiveTypes == {"Bool", "Number", "String"}

LessOf(a, b) == Less(a, b, last.heap, last.out)

\* C22: for a and b both Bool, both Number or both String, Equal(a, b) holds
\* if and only if neither Less(a, b) nor Less(b, a) holds, and at most one of
\* Less(a, b) and Less(b, a) holds.
C22_EqualIffNeitherLess ==
    (/\ last.node.k = "Comparator"
     /\ last.node.lhs.t \in PrimitiveTypes
     /\ last.node.lhs.t = last.node.rhs.t) =>
        /\ LastEqual.kind = "ok"
        /\ LessOf(last.node.lhs, last.node.rhs).kind = "ok"
        /\ LessOf(last.node.rhs, last.node.lhs).kind = "ok"
        /\ LastEqual.b <=> (/\ ~LessOf(last.node.lhs, last.node.rhs).b
                            /\ ~LessOf(last.node.rhs, last.node.lhs).b)
        /\ ~(/\ LessOf(last.node.lhs, last.node.rhs).b
             /\ LessOf(last.node.rhs, last.node.lhs).b)
        /\ last.node.cmp = "Equal" => last.res.val = BoolV(LastEqual.b)
        /\ last.node.cmp = "Less" =>
               last.res.val = BoolV(LessOf(last.node.lhs, last.node.rhs).b)

\* Less of a String and a longer String that starts with it
C22_Witness ==
    /\ last.node.k = "Comparator"
    /\ last.node.cmp = "Less"
    /\ last.node.lhs = Str("a")
    /\ last.node.rhs = Str("ab")
    /\ last.res = [kind |-> "ok", val |-> BoolV(TRUE), err |-> ""]

-----------------------------------------------------------------------------
(* Claims about single nodes, checked under SpecNodes.  last holds the     *)
(* node executed last, the state it was executed in and its outcome.       *)

\* the values of the operands of the BinaryOperation executed last, which
\* are names or None
LastOperand(operand) == Execute(operand, last.closure, last.heap, last.out)
Lhs == LastOperand(last.node.lhs).val
Rhs == LastOperand(last.node.rhs).val

PlainOperands ==
    /\ last.node.k \in ArithmeticKinds
    /\ last.node.lhs \in ArithmeticOperands
    /\ last.node.rhs \in ArithmeticOperands

LastGave(v) == last.res = [kind |-> "ok", val |-> v, err |-> ""]

\* the node gave a Number that holds the result of the operation on a and b
GaveResult(kind, a, b) ==
    CASE kind = "Add" -> ~AddOverflows(a, b) /\ LastGave(Num(a + b))
      [] kind = "Sub" -> ~SubOverflows(a, b) /\ LastGave(Num(a - b))
      [] kind = "Mult" -> ~MultOverflows(a, b) /\ LastGave(Num(a * b))
      [] kind = "Div" -> ~DivOverflows(a, b) /\ LastGave(Num(TruncDiv(a, b)))

BothNumbers == Lhs.t = "Number" /\ Rhs.t = "Number"

AddDispatches ==
    /\ last.node.k = "Add"
    /\ Lhs.t = "Instance"
    /\ HasMethod(Lhs.id, "__add__", 1)

\* C23: Add, Sub, Mult and Div give a Number that holds the integer result
\* when both operands are Numbers (the divisor not 0 for Div); Add gives the
\* concatenation of two Strings and the result of lhs.__add__(rhs) when lhs is
\* an instance with an __add__ of one parameter; every other pairing of
\* operands, and Div by 0, raises a runtime error and gives no value.
C23_ArithmeticGivesResult ==
    PlainOperands =>
        IF BothNumbers /\ ~(last.node.k = "Div" /\ Rhs.n = 0)
        THEN GaveResult(last.node.k, Lhs.n, Rhs.n)
        ELSE IF last.node.k = "Add" /\ Lhs.t = "String" /\ Rhs.t = "String"
        THEN LastGave(Str(Lhs.s \o Rhs.s))
        ELSE IF AddDispatches
        THEN last.res = Outcome(ClassInstance_Call(Lhs.id, "__add__", <<Rhs>>,
                                                   last.heap, last.out))
        ELSE last.res.kind = "error"

\* the same where the result is a value of int
C23_ArithmeticWithinInt ==
    PlainOperands =>
        IF BothNumbers /\ ~(last.node.k = "Div" /\ Rhs.n = 0)
        THEN \/ GaveResult(last.node.k, Lhs.n, Rhs.n)
             \/ /\ last.node.k = "Add" /\ AddOverflows(Lhs.n, Rhs.n)
             \/ /\ last.node.k = "Sub" /\ SubOverflows(Lhs.n, Rhs.n)
             \/ /\ last.node.k = "Mult" /\ MultOverflows(Lhs.n, Rhs.n)
             \/ /\ last.node.k = "Div" /\ DivOverflows(Lhs.n, Rhs.n)
        ELSE IF last.node.k = "Add" /\ Lhs.t = "String" /\ Rhs.t = "String"
        THEN LastGave(Str(Lhs.s \o Rhs.s))
        ELSE IF AddDispatches
        THEN last.res = Outcome(ClassInstance_Call(Lhs.id, "__add__", <<Rhs>>,
                                                   last.heap, last.out))
        ELSE last.res.kind = "error"

\* the state an outcome leaves is the state after the node executed last
StateIs(r) == closure = r.closure /\ heap = r.heap /\ out = r.out

\* lhs_ of the BinaryOperation executed last, evaluated once in the state the
\* node was executed in; rhs_ evaluated once in the state lhs_ left
LhsOnce == LastOperand(last.node.lhs)
RhsOnce == Execute(last.node.rhs, LhsOnce.closure, LhsOnce.heap, LhsOnce.out)

\* the node executed last evaluated only lhs_, once, and gave Bool(b)
OnlyLhs(b) == StateIs(LhsOnce) /\ LastGave(BoolV(b))

\* it evaluated lhs_ and then rhs_, once each, and gave Bool(b), or what rhs_
\* raised
BothOperands(b) ==
    /\ StateIs(RhsOnce)
    /\ IF RhsOnce.kind = "ok" THEN LastGave(BoolV(b)) ELSE last.res = Outcome(RhsOnce)

LastLogic == last.node.k \in LogicKinds /\ LhsOnce.kind = "ok"

\* C24: Or evaluates its right operand exactly when the left one did not give
\* Bool(true), And exactly when the left one gave Bool(true); each operand is
\* evaluated at most once; Or gives true exactly when an operand it evaluated
\* is Bool(true), And exactly when both are; an operand that is not a Bool
\* counts as false and raises nothing.
C24_LogicShortCircuits ==
    LastLogic =>
        IF last.node.k = "Or"
        THEN IF IsTrueBool(LhsOnce.val) THEN OnlyLhs(TRUE)
             ELSE BothOperands(RhsOnce.val = BoolV(TRUE))
        ELSE IF LhsOnce.val = BoolV(TRUE)
             THEN BothOperands(RhsOnce.val = BoolV(TRUE))
             ELSE OnlyLhs(FALSE)

\* Or printed both operands, the left one not a Bool, and gave true
C24_Witness ==
    /\ last.node = BinOp("Or", Echo("zero"), Echo("t"))
    /\ out = last.out \o "0\nTrue\n"
    /\ LastGave(BoolV(TRUE))

RECURSIVE Joined(_, _)

\* the Strings of texts from i on, a single space between two of them
Joined(texts, i) ==
    IF i > Len(texts) THEN ""
    ELSE IF i = Len(texts) THEN texts[i].s
    ELSE texts[i].s \o " " \o Joined(texts, i + 1)

LastPrint == last.node.k = "Print"

\* the arguments of the Print executed last, each evaluated and rendered once,
\* from left to right, in the state the Print was executed in: vals are the
\* renderings, r.out the output with what the arguments wrote themselves
Renderings ==
    EvalArgs([i \in DOMAIN last.node.args |-> StringifyNode(last.node.args[i])],
             1, <<>>, last.closure, last.heap, last.out)

\* C25: Print evaluates its arguments once each from left to right and
\* appends their renderings (None for the empty holder), a single space
\* between two of them and one newline after them; it returns a String that is
\* the text appended without the newline.  A Print without arguments appends
\* the newline alone and returns the empty String.
C25_PrintJoinsRenderings ==
    (LastPrint /\ Renderings.r.kind = "ok") =>
        /\ LastGave(Str(Joined(Renderings.vals, 1)))
        /\ out = Renderings.r.out \o Joined(Renderings.vals, 1) \o "\n"
        /\ closure = Renderings.r.closure
        /\ heap = Renderings.r.heap
        /\ last.node.args = <<>> => LastGave(Str("")) /\ out = last.out \o "\n"

\* the second argument read what the first one assigned
C25_Witness ==
    /\ last.node = PrintNode(<<Assign("x", V("one")), V("x")>>)
    /\ out = last.out \o "1 1\n"
    /\ LastGave(Str("1 1"))

\* C28: Print writes its line in one step, after all its arguments were
\* evaluated and rendered: what the arguments print themselves comes before
\* the line, and a Print with an argument that raises appends nothing.
C28_PrintWritesLineAtEnd ==
    LastPrint =>
        IF last.res.kind = "ok"
        THEN out = Renderings.r.out \o last.res.val.s \o "\n"
        ELSE out = Renderings.r.out /\ last.res = Outcome(Renderings.r)

\* k was rendered, and its __str__ printed, before the second argument
\* raised: the output has the line of __str__ and nothing of the Print
C28_Witness ==
    /\ last.node = PrintNode(<<V("k"), V("nope"), V("s")>>)
    /\ last.res.kind = "error"
    /\ out = last.out \o "1\n"

LastMethodCall == last.node.k = "MethodCall"

\* object_ of the MethodCall executed last, evaluated once in the state the
\* node was executed in; the arguments evaluated once each, from left to
\* right, in the state object_ left
ObjectOnce == Execute(last.node.object, last.closure, last.heap, last.out)
ArgsOnce == EvalArgs(last.node.args, 1, <<>>, ObjectOnce.closure, ObjectOnce.heap,
                     ObjectOnce.out)

\* the object is an instance whose class has the method with as many
\* parameters as the node has arguments
Callable ==
    /\ ObjectOnce.val.t = "Instance"
    /\ HasMethod(ObjectOnce.val.id, last.node.method, Len(last.node.args))

\* the method called with the arguments, after they were evaluated
Dispatched ==
    ClassInstance_Call(ObjectOnce.val.id, last.node.method, ArgsOnce.vals,
                       ArgsOnce.r.heap, ArgsOnce.r.out)

\* C26: MethodCall evaluates the object, checks that it is an instance, checks
\* that its class has the method with the number of arguments, evaluates the
\* arguments from left to right and calls the method.  When the object is not
\* an instance, or has no such method with that number of parameters, the
\* error is raised before any argument is evaluated: no argument has written,
\* assigned or raised anything.
C26_MethodCallChecksBeforeArgs ==
    (LastMethodCall /\ ObjectOnce.kind = "ok") =>
        IF ~Callable
        THEN /\ last.res.kind = "error"
             /\ last.res.err \in {"MethodCall::Execute. The object is not a custom type",
                                  "MethodCall::Execute. The class does not have the method"}
             /\ StateIs(ObjectOnce)
        ELSE IF ArgsOnce.r.kind # "ok"
        THEN last.res = Outcome(ArgsOnce.r) /\ StateIs(ArgsOnce.r)
        ELSE /\ last.res = Outcome(Dispatched)
             /\ closure = ArgsOnce.r.closure
             /\ heap = Dispatched.heap
             /\ out = Dispatched.out

\* echo was called with two arguments: nothing was printed or assigned
C26_Witness ==
    /\ last.node = MethodCallNode(V("u"), "echo", <<Echo("t"), Assign("x", V("one"))>>)
    /\ last.res.kind = "error"
    /\ out = last.out
    /\ closure = last.closure

LastNewInstance == last.node.k = "NewInstance"

\* the arguments of the NewInstance executed last, evaluated once each from
\* left to right in the state the node was executed in, and __init__ called
\* once with them
InitArgs == EvalArgs(last.node.args, 1, <<>>, last.closure, last.heap, last.out)
InitCalled ==
    ClassInstance_Call(last.node.class_instance, "__init__", InitArgs.vals,
                       InitArgs.r.heap, InitArgs.r.out)

\* the class of the instance, or a class it inherits from, has an __init__
\* with as many parameters as the node has arguments
InitResolves ==
    LET init == GetMethod(InstClass[last.node.class_instance], "__init__")
    IN  init # NullMethod /\ Len(init.formal_params) = Len(last.node.args)

\* C27: a NewInstance with k arguments calls __init__ once, with the
\* arguments evaluated from left to right, exactly when the class or a class
\* it inherits from has an __init__ with k parameters, and gives the instance
\* whatever __init__ returns.  Otherwise nothing is raised, no argument is
\* evaluated and the instance is given as it is.
C27_NewInstanceCallsInit ==
    LastNewInstance =>
        IF ~InitResolves
        THEN /\ LastGave(Inst(last.node.class_instance))
             /\ closure = last.closure /\ heap = last.heap /\ out = last.out
        ELSE IF InitArgs.r.kind # "ok"
        THEN last.res = Outcome(InitArgs.r) /\ StateIs(InitArgs.r)
        ELSE /\ closure = InitArgs.r.closure
             /\ heap = InitCalled.heap
             /\ out = InitCalled.out
             /\ IF InitCalled.kind = "ok"
                THEN LastGave(Inst(last.node.class_instance))
                ELSE last.res = Outcome(InitCalled)

\* the argument printed, then the __init__ inherited from I printed and kept
\* the value; the node gave the instance, not the value __init__ returned
C27_Witness ==
    /\ last.node = NewInst(16, <<Echo("t")>>)
    /\ out = last.out \o "True\nTrue\n"
    /\ heap[16] = Bind(last.heap[16], "v", BoolV(TRUE))
    /\ LastGave(Inst(16))

\* the FieldAssignment executed last had an instance as its object
LastStore ==
    /\ last.node.k = "FieldAssignment"
    /\ VariableValue_Execute(last.node.object, last.closure, last.heap, last.out).kind = "ok"
    /\ VariableValue_Execute(last.node.object, last.closure, last.heap, last.out).val.t
           = "Instance"

StoreTarget ==
    VariableValue_Execute(last.node.object, last.closure, last.heap, last.out).val.id

\* the right-hand side reads the field that is assigned, which the instance
\* does not have
ReadsOwnField ==
    /\ last.node.r_value = VarV(last.node.object.dotted_ids \o <<last.node.field_name>>)
    /\ last.node.field_name \notin DOMAIN last.heap[StoreTarget]

\* C29: when the right-hand side of a FieldAssignment raises, the fields of
\* the instance are left as they were: no field is created and a field that
\* exists keeps its value; so a right-hand side that reads the field being
\* assigned, which is not defined yet, raises instead of reading None.
C29_RaisingRhsKeepsFields ==
    LastStore =>
        /\ last.res.kind = "error" => heap[StoreTarget] = last.heap[StoreTarget]
        /\ ReadsOwnField => last.res.kind = "error"

\* the field that exists keeps its value when the right-hand side raises
C29_ExistingFieldKept ==
    (LastStore /\ last.res.kind = "error") =>
        \A name \in DOMAIN last.heap[StoreTarget] :
            /\ name \in DOMAIN heap[StoreTarget]
            /\ heap[StoreTarget][name] = last.heap[StoreTarget][name]

=============================================================================
